---- MODULE Spec2Model ----
(***************************************************************************)
(* Ride dispatch engine of aureavia: the ride lifecycle state machine      *)
(* (app/services/ride_service.py), the critical-ride sweep, the ETG        *)
(* supplier adapter (app/services/etg_service.py) and the Booking.com      *)
(* webhooks and poll (app/api/webhook.py, app/services/booking_service.py).*)
(*                                                                         *)
(* Conventions.  A ride's id is its index in `rides` (the code draws a     *)
(* uuid4).  Time is in minutes.  Money is in cents and distances in        *)
(* tenths of a kilometre; an absent (None) price, distance or driver       *)
(* share is 0, which every reader in the code treats like None             *)
(* (`if ride.price`, `if ride.distance_km`, `if ride.driver_share`).       *)
(* created_at / updated_at are bookkeeping stamps no rule reads and are    *)
(* left out.                                                               *)
(***************************************************************************)
EXTENDS Integers, Sequences, FiniteSets, TLC

VARIABLES
    rides,          \* table rides: sequence of ride rows, id = index
    history,        \* table ride_history: sequence of rows, in insertion order
    notifications,  \* table notifications: sequence of rows
    drivers,        \* table drivers: driver user id -> aggregate columns
    config,         \* the singleton booking_config row
    offer_cache,    \* etg_service._offer_cache, in insertion order
    next_search,    \* number of search ids generated so far
    next_order,     \* number of order ids generated so far
    now,            \* the clock, minutes
    inflight,       \* lifecycle requests that have read their ride and not yet written
    resp            \* outcome of the last request handled

vars == <<rides, history, notifications, drivers, config, offer_cache,
          next_search, next_order, now, inflight, resp>>

----------------------------------------------------------------------------
(* Bounds of the model *)

MaxRides == 2

MaxNow == 2

MaxSearches == 2

MaxCachedSearches == 1

MaxHistory == 5

MaxNotifications == 2

MaxInflight == 2

MaxBeats == 38

----------------------------------------------------------------------------
(* Values *)

NULL == "null"

NoTime == -1

HOUR == 60

\* models/ride.py RideStatus
RideStatus == {"to_assign", "booked", "in_progress", "completed", "cancelled", "critical"}

\* models/user.py UserRole, over the users of the model
DriverUsers == {"d1", "d2"}

AdminUsers == {"adm"}

Users == DriverUsers \cup AdminUsers

UserRole(u) == IF u \in DriverUsers THEN "driver" ELSE "admin"

\* ride_service.py VALID_TRANSITIONS
VALID_TRANSITIONS(s) ==
    CASE s = "to_assign"   -> {"booked", "cancelled", "critical"}
      [] s = "critical"    -> {"booked", "cancelled"}
      [] s = "booked"      -> {"in_progress", "cancelled"}
      [] s = "in_progress" -> {"completed", "cancelled"}
      [] s = "completed"   -> {}
      [] s = "cancelled"   -> {}
      [] OTHER             -> {}

\* a transition check that also lets a ride "move" to the status it already has
ValidateTransitionOrSame(current, target) ==
    target = current \/ target \in VALID_TRANSITIONS(current)

\* ride_service.py _validate_transition: TRUE when no RideServiceError is raised
_validate_transition(current, target) == target \in VALID_TRANSITIONS(current)

\* ride_service.py _create_history
_create_history(ride_id, old_status, new_status, changed_by, notes) ==
    [ride_id |-> ride_id, old_status |-> old_status, new_status |-> new_status,
     changed_by |-> changed_by, notes |-> notes]

\* ride_service.py _create_notification
_create_notification(user_id, notification_type, ride_id) ==
    [user_id |-> user_id, type |-> notification_type, ride_id |-> ride_id]

\* the offer id of a ride that no supplier offer produced
NoOffer == [sid |-> 0, cat |-> NULL]

\* models/ride.py Ride: a new row with the column defaults; booking_raw_payload
\* holds the offer id a supplier booking stores in it.  booking_customer_ref is set
\* where a Booking.com webhook or poll builds the row (the customerReference the
\* payload carries, written "cust-" and the reference) and left null elsewhere.
Ride(ext, plat, ref, sched, price, dist, share, drv, hash) ==
    [external_id |-> ext, source_platform |-> plat, booking_reference |-> ref,
     booking_customer_ref |-> IF ref # NULL /\ plat = "booking.com"
                              THEN "cust-" \o ref ELSE NULL,
     status |-> "to_assign", scheduled_at |-> sched, price |-> price,
     distance_km |-> dist, driver_share |-> share, driver_id |-> drv,
     assigned_by |-> NULL, critical_at |-> NoTime,
     critical_resolved_at |-> NoTime, critical_resolution_type |-> NULL,
     started_at |-> NoTime, completed_at |-> NoTime,
     booking_state_hash |-> hash, booking_raw_payload |-> NoOffer]

RideIds == 1..Len(rides)

\* the outcome of a request: operation, HTTP status, ride concerned (0: none), value,
\* for a list request the rows returned, a string the body carries (an order status,
\* a token) and the number of token requests the handler sent to the remote side
Response(op, code, ride, val) ==
    [op |-> op, code |-> code, ride |-> ride, val |-> val, rows |-> << >>,
     text |-> NULL, calls |-> 0]

\* the admins and assistants a transition notifies, in the order the query returns them
AdminSeq == <<"adm">>

AdminNotifications(type, ride_id) ==
    [k \in 1..Len(AdminSeq) |-> _create_notification(AdminSeq[k], type, ride_id)]

----------------------------------------------------------------------------
(* Initial state: empty tables, the config row with its column defaults *)

Init ==
    /\ rides = << >>
    /\ history = << >>
    /\ notifications = << >>
    /\ drivers = [d \in DriverUsers |-> [total_rides |-> 0, total_km |-> 0, total_earnings |-> 0]]
    /\ config = [client_id |-> "", webhook_secret |-> "", is_enabled |-> FALSE,
                 access_token |-> NULL, token_expires_at |-> NoTime,
                 last_sync_at |-> NoTime]
    /\ offer_cache = << >>
    /\ next_search = 0
    /\ next_order = 0
    /\ now = 0
    /\ inflight = {}
    /\ resp = Response("none", 0, 0, 0)

----------------------------------------------------------------------------
(* Ride lifecycle engine, each request handled as one unit of work *)

\* api/rides.py create_ride_endpoint + ride_service.py create_ride
CreateRide(by, ext, plat, sched, price, dist, share, drv) ==
    /\ Len(rides) < MaxRides
    /\ rides' = Append(rides, Ride(ext, plat, NULL, sched, price, dist, share, drv, NULL))
    /\ history' = Append(history,
                         _create_history(Len(rides) + 1, NULL, "to_assign", by, "Ride created"))
    /\ resp' = Response("create", 201, Len(rides) + 1, 0)
    /\ UNCHANGED <<notifications, drivers, config, offer_cache, next_search,
                   next_order, now, inflight>>

\* an assignment that also books the ride
AssignRideBooks(r, d, by) ==
    /\ IF r \notin RideIds
       THEN /\ resp' = Response("assign", 404, 0, 0)
            /\ UNCHANGED <<rides, notifications>>
       ELSE IF rides[r].status \notin {"to_assign", "critical"}
       THEN /\ resp' = Response("assign", 400, r, 0)
            /\ UNCHANGED <<rides, notifications>>
       ELSE IF d \notin DriverUsers
       THEN /\ resp' = Response("assign", 404, r, 0)
            /\ UNCHANGED <<rides, notifications>>
       ELSE /\ rides' = [rides EXCEPT ![r] =
                           [@ EXCEPT !.driver_id = d, !.assigned_by = by,
                                     !.status = "booked"]]
            /\ notifications' = Append(notifications,
                                       _create_notification(d, "ride_assigned", r))
            /\ resp' = Response("assign", 200, r, 0)
    /\ UNCHANGED <<history, drivers, config, offer_cache, next_search, next_order,
                   now, inflight>>

\* an assign that refuses a ride that has a driver already
AssignRideOnce(r, d, by) ==
    /\ IF r \notin RideIds
       THEN /\ resp' = Response("assign", 404, 0, 0)
            /\ UNCHANGED <<rides, notifications>>
       ELSE IF rides[r].status \notin {"to_assign", "critical"} \/ rides[r].driver_id # NULL
       THEN /\ resp' = Response("assign", 400, r, 0)
            /\ UNCHANGED <<rides, notifications>>
       ELSE IF d \notin DriverUsers
       THEN /\ resp' = Response("assign", 404, r, 0)
            /\ UNCHANGED <<rides, notifications>>
       ELSE /\ rides' = [rides EXCEPT ![r] =
                           IF @.status = "critical"
                           THEN [@ EXCEPT !.driver_id = d, !.assigned_by = by,
                                          !.critical_resolved_at = now,
                                          !.critical_resolution_type = "assigned"]
                           ELSE [@ EXCEPT !.driver_id = d, !.assigned_by = by]]
            /\ notifications' = Append(notifications,
                                       _create_notification(d, "ride_assigned", r))
            /\ resp' = Response("assign", 200, r, 0)
    /\ UNCHANGED <<history, drivers, config, offer_cache, next_search, next_order,
                   now, inflight>>

\* api/rides.py assign_ride_endpoint + ride_service.py assign_ride
AssignRide(r, d, by) ==
    /\ IF r \notin RideIds
       THEN /\ resp' = Response("assign", 404, 0, 0)
            /\ UNCHANGED <<rides, notifications>>
       ELSE IF rides[r].status \notin {"to_assign", "critical"}
       THEN /\ resp' = Response("assign", 400, r, 0)
            /\ UNCHANGED <<rides, notifications>>
       ELSE IF d \notin DriverUsers
       THEN /\ resp' = Response("assign", 404, r, 0)
            /\ UNCHANGED <<rides, notifications>>
       ELSE /\ rides' = [rides EXCEPT ![r] =
                           IF @.status = "critical"
                           THEN [@ EXCEPT !.driver_id = d, !.assigned_by = by,
                                          !.critical_resolved_at = now,
                                          !.critical_resolution_type = "assigned"]
                           ELSE [@ EXCEPT !.driver_id = d, !.assigned_by = by]]
            /\ notifications' = Append(notifications,
                                       _create_notification(d, "ride_assigned", r))
            /\ resp' = Response("assign", 200, r, 0)
    /\ UNCHANGED <<history, drivers, config, offer_cache, next_search, next_order,
                   now, inflight>>

\* ride_service.py accept_ride after get_ride has returned the row `seen`
AcceptRideFrom(r, u, seen) ==
    /\ IF seen.driver_id # u
       THEN /\ resp' = Response("accept", 403, r, 0)
            /\ UNCHANGED <<rides, history, notifications>>
       ELSE IF ~ _validate_transition(seen.status, "booked")
       THEN /\ resp' = Response("accept", 400, r, 0)
            /\ UNCHANGED <<rides, history, notifications>>
       ELSE /\ rides' = [rides EXCEPT ![r] =
                           IF seen.status = "critical"
                           THEN [@ EXCEPT !.status = "booked",
                                          !.critical_resolved_at = now,
                                          !.critical_resolution_type = "accepted"]
                           ELSE [@ EXCEPT !.status = "booked"]]
            /\ history' = Append(history,
                                 _create_history(r, seen.status, "booked", u,
                                                 "Driver accepted the ride"))
            /\ notifications' = notifications \o AdminNotifications("ride_accepted", r)
            /\ resp' = Response("accept", 200, r, 0)
    /\ UNCHANGED <<drivers, config, offer_cache, next_search, next_order, now>>

\* a start that stamps started_at before it checks anything
StartRideStampsFirst(r, u, seen) ==
    /\ IF seen.driver_id # u
       THEN /\ resp' = Response("start", 403, r, 0)
            /\ rides' = [rides EXCEPT ![r] = [@ EXCEPT !.started_at = now]]
            /\ UNCHANGED history
       ELSE IF ~ _validate_transition(seen.status, "in_progress")
       THEN /\ resp' = Response("start", 400, r, 0)
            /\ rides' = [rides EXCEPT ![r] = [@ EXCEPT !.started_at = now]]
            /\ UNCHANGED history
       ELSE /\ rides' = [rides EXCEPT ![r] =
                           [@ EXCEPT !.status = "in_progress", !.started_at = now]]
            /\ history' = Append(history,
                                 _create_history(r, seen.status, "in_progress", u,
                                                 "Driver started the ride"))
            /\ resp' = Response("start", 200, r, 0)
    /\ UNCHANGED <<notifications, drivers, config, offer_cache, next_search,
                   next_order, now>>

\* ride_service.py start_ride after get_ride has returned the row `seen`
StartRideFrom(r, u, seen) ==
    /\ IF seen.driver_id # u
       THEN /\ resp' = Response("start", 403, r, 0)
            /\ UNCHANGED <<rides, history>>
       ELSE IF ~ _validate_transition(seen.status, "in_progress")
       THEN /\ resp' = Response("start", 400, r, 0)
            /\ UNCHANGED <<rides, history>>
       ELSE /\ rides' = [rides EXCEPT ![r] =
                           [@ EXCEPT !.status = "in_progress", !.started_at = now]]
            /\ history' = Append(history,
                                 _create_history(r, seen.status, "in_progress", u,
                                                 "Driver started the ride"))
            /\ resp' = Response("start", 200, r, 0)
    /\ UNCHANGED <<notifications, drivers, config, offer_cache, next_search,
                   next_order, now>>

\* ride_service.py complete_ride, "Update driver stats": the aggregates after one ride
DriverStatsAfter(stats, ride) ==
    [total_rides    |-> stats.total_rides + 1,
     total_km       |-> stats.total_km + ride.distance_km,
     total_earnings |-> stats.total_earnings + ride.driver_share]

\* a complete that checks the transition before the caller
CompleteRideTransitionFirst(r, u, seen) ==
    /\ IF ~ _validate_transition(seen.status, "completed")
       THEN /\ resp' = Response("complete", 400, r, 0)
            /\ UNCHANGED <<rides, history, drivers>>
       ELSE IF seen.driver_id # u
       THEN /\ resp' = Response("complete", 403, r, 0)
            /\ UNCHANGED <<rides, history, drivers>>
       ELSE /\ rides' = [rides EXCEPT ![r] =
                           [@ EXCEPT !.status = "completed", !.completed_at = now]]
            /\ history' = Append(history,
                                 _create_history(r, seen.status, "completed", u,
                                                 "Driver completed the ride"))
            /\ drivers' = [drivers EXCEPT ![u] = DriverStatsAfter(@, seen)]
            /\ resp' = Response("complete", 200, r, 0)
    /\ UNCHANGED <<notifications, config, offer_cache, next_search, next_order, now>>

\* ride_service.py complete_ride after get_ride has returned the row `seen`; the
\* Driver row is selected after the ride's UPDATE has been flushed.  Every driver
\* user has a Driver row (api/drivers.py creates both together).
CompleteRideFrom(r, u, seen) ==
    /\ IF seen.driver_id # u
       THEN /\ resp' = Response("complete", 403, r, 0)
            /\ UNCHANGED <<rides, history, drivers>>
       ELSE IF ~ _validate_transition(seen.status, "completed")
       THEN /\ resp' = Response("complete", 400, r, 0)
            /\ UNCHANGED <<rides, history, drivers>>
       ELSE /\ rides' = [rides EXCEPT ![r] =
                           [@ EXCEPT !.status = "completed", !.completed_at = now]]
            /\ history' = Append(history,
                                 _create_history(r, seen.status, "completed", u,
                                                 "Driver completed the ride"))
            /\ drivers' = [drivers EXCEPT ![u] = DriverStatsAfter(@, seen)]
            /\ resp' = Response("complete", 200, r, 0)
    /\ UNCHANGED <<notifications, config, offer_cache, next_search, next_order, now>>

\* ride_service.py cancel_ride after get_ride has returned the row `seen`
CancelRideFrom(r, u, seen) ==
    /\ IF ~ _validate_transition(seen.status, "cancelled")
       THEN /\ resp' = Response("cancel", 400, r, 0)
            /\ UNCHANGED <<rides, history, notifications>>
       ELSE /\ rides' = [rides EXCEPT ![r] = [@ EXCEPT !.status = "cancelled"]]
            /\ history' = Append(history,
                                 _create_history(r, seen.status, "cancelled", u,
                                                 "Ride cancelled"))
            /\ notifications' =
                 IF seen.driver_id # NULL
                 THEN Append(notifications,
                             _create_notification(seen.driver_id, "ride_cancelled", r))
                 ELSE notifications
            /\ resp' = Response("cancel", 200, r, 0)
    /\ UNCHANGED <<drivers, config, offer_cache, next_search, next_order, now>>

\* the endpoints of api/rides.py that take a driver's request: the role test
OnlyDrivers == {"accept", "start", "complete"}

\* api/rides.py accept/start/complete/cancel endpoints before the service loads the
\* ride: the response of a request refused there (code 0 when it goes on)
RefusedEarly(op, r, u) ==
    IF op \in OnlyDrivers /\ UserRole(u) # "driver" THEN Response(op, 403, 0, 0)
    ELSE IF r \notin RideIds THEN Response(op, 404, 0, 0)
    ELSE Response(op, 0, 0, 0)

\* the service call of a lifecycle request on the row `seen`
LifecycleFrom(op, r, u, seen) ==
    CASE op = "accept"   -> AcceptRideFrom(r, u, seen)
      [] op = "start"    -> StartRideFrom(r, u, seen)
      [] op = "complete" -> CompleteRideFrom(r, u, seen)
      [] op = "cancel"   -> CancelRideFrom(r, u, seen)

\* a lifecycle request handled as one unit of work
LifecycleRequest(op, r, u) ==
    /\ IF RefusedEarly(op, r, u).code # 0
       THEN /\ resp' = RefusedEarly(op, r, u)
            /\ UNCHANGED <<rides, history, notifications, drivers, config, offer_cache,
                           next_search, next_order, now>>
       ELSE LifecycleFrom(op, r, u, rides[r])
    /\ UNCHANGED inflight

\* api/rides.py accept_ride_endpoint + ride_service.py accept_ride
AcceptRide(r, u) == LifecycleRequest("accept", r, u)

\* api/rides.py start_ride_endpoint + ride_service.py start_ride
StartRide(r, u) == LifecycleRequest("start", r, u)

\* api/rides.py complete_ride_endpoint + ride_service.py complete_ride
CompleteRide(r, u) == LifecycleRequest("complete", r, u)

\* api/rides.py cancel_ride_endpoint + ride_service.py cancel_ride
CancelRide(r, u) == LifecycleRequest("cancel", r, u)

\* ride_service.py get_rides, the WHERE clause: the rides that pass the driver
\* scope of the requesting user and the filters given (NULL / NoTime: not given)
RidesWhere(requesting_user, status, date_from, date_to, driver_id, source_platform) ==
    {i \in RideIds :
        /\ UserRole(requesting_user) = "driver"
              => \/ rides[i].driver_id = requesting_user
                 \/ rides[i].status \in {"to_assign", "critical"}
        /\ status # NULL => rides[i].status = status
        /\ date_from # NoTime => rides[i].scheduled_at >= date_from
        /\ date_to # NoTime => rides[i].scheduled_at <= date_to
        /\ driver_id # NULL => rides[i].driver_id = driver_id
        /\ source_platform # NULL => rides[i].source_platform = source_platform}

\* ORDER BY scheduled_at DESC: the orders in which the database may return the rides
\* of S (rides of equal scheduled_at in any order)
OrderedByScheduledDesc(S) ==
    {q \in [1..Cardinality(S) -> S] :
        /\ \A a, b \in DOMAIN q : a # b => q[a] # q[b]
        /\ \A a, b \in DOMAIN q :
              a < b => rides[q[a]].scheduled_at >= rides[q[b]].scheduled_at}

\* OFFSET (page - 1) * page_size LIMIT page_size
PageOf(q, page, page_size) ==
    LET offset == (page - 1) * page_size
    IN  SubSeq(q, offset + 1, IF offset + page_size < Len(q)
                              THEN offset + page_size
                              ELSE Len(q))

\* api/rides.py list_rides + ride_service.py get_rides: a driver's driver_id filter
\* is dropped by the endpoint
ListRides(u, status, date_from, date_to, driver_id, source_platform, page, page_size) ==
    LET effective_driver_id == IF UserRole(u) = "driver" THEN NULL ELSE driver_id
        found == RidesWhere(u, status, date_from, date_to, effective_driver_id,
                            source_platform)
    IN  /\ \E q \in OrderedByScheduledDesc(found) :
              resp' = [Response("list", 200, 0, Cardinality(found))
                         EXCEPT !.rows = PageOf(q, page, page_size)]
        /\ UNCHANGED <<rides, history, notifications, drivers, config, offer_cache,
                       next_search, next_order, now, inflight>>

\* an update that applies the status of the patch as well
PatchedRideWithStatus(ride, patch) ==
    [ride EXCEPT
       !.status       = IF patch.status # NULL THEN patch.status ELSE @,
       !.scheduled_at = IF patch.scheduled_at # NoTime THEN patch.scheduled_at ELSE @,
       !.driver_id    = IF patch.driver_id # NULL THEN patch.driver_id ELSE @]

\* an update that writes the driver_id of the patch also when it is null
PatchedRideWritesNull(ride, patch) ==
    [ride EXCEPT
       !.scheduled_at = IF patch.scheduled_at # NoTime THEN patch.scheduled_at ELSE @,
       !.driver_id    = patch.driver_id]

\* ride_service.py update_ride, the loop over the patch after status is popped: a
\* patch is [status, scheduled_at, driver_id], NULL / NoTime for a field that is
\* absent or null
PatchedRide(ride, patch) ==
    [ride EXCEPT
       !.scheduled_at = IF patch.scheduled_at # NoTime THEN patch.scheduled_at ELSE @,
       !.driver_id    = IF patch.driver_id # NULL THEN patch.driver_id ELSE @]

\* api/rides.py update_ride_endpoint + ride_service.py update_ride
UpdateRide(u, r, patch) ==
    /\ IF UserRole(u) \notin {"admin", "assistant"}
       THEN /\ resp' = Response("update", 403, 0, 0)
            /\ UNCHANGED rides
       ELSE IF r \notin RideIds
       THEN /\ resp' = Response("update", 404, 0, 0)
            /\ UNCHANGED rides
       ELSE /\ rides' = [rides EXCEPT ![r] = PatchedRide(@, patch)]
            /\ resp' = Response("update", 200, r, 0)
    /\ UNCHANGED <<history, notifications, drivers, config, offer_cache, next_search,
                   next_order, now, inflight>>

----------------------------------------------------------------------------
(* Critical escalation sweep *)

\* the ids of a set of rides in the order a query returns them (ascending id)
IdSeq(S) == SelectSeq([i \in 1..Len(rides) |-> i], LAMBDA i : i \in S)

RECURSIVE Flatten(_)
Flatten(ss) == IF ss = << >> THEN << >> ELSE Head(ss) \o Flatten(Tail(ss))

\* a query with a window of four minutes, shorter than the interval of the runs
SweepSelectsFourMinutes(ride, t) ==
    /\ ride.status = "to_assign"
    /\ ride.scheduled_at <= t + 4
    /\ ride.scheduled_at > t

\* a query that also selects the rides already critical
SweepSelectsCriticalToo(ride, t) ==
    /\ ride.status \in {"to_assign", "critical"}
    /\ ride.scheduled_at <= t + 3 * HOUR
    /\ ride.scheduled_at > t

\* a query without the exclusion of past rides
SweepSelectsPastToo(ride, t) ==
    /\ ride.status = "to_assign"
    /\ ride.scheduled_at <= t + 3 * HOUR

\* a sweep query without the status condition
SweepSelectsAnyStatus(ride, t) ==
    /\ ride.status # "critical"
    /\ ride.scheduled_at <= t + 3 * HOUR
    /\ ride.scheduled_at > t

\* ride_service.py check_critical_rides, the WHERE clause of the query
SweepSelects(ride, t) ==
    /\ ride.status = "to_assign"
    /\ ride.scheduled_at <= t + 3 * HOUR
    /\ ride.scheduled_at > t

\* ride_service.py check_critical_rides run and committed at time t: what it writes
check_critical_rides(t) ==
    LET sel == {i \in RideIds : SweepSelects(rides[i], t)}
        ids == IdSeq(sel)
    IN  /\ rides' = [i \in RideIds |->
                       IF i \in sel
                       THEN [rides[i] EXCEPT !.status = "critical", !.critical_at = t]
                       ELSE rides[i]]
        /\ history' = history \o
                [k \in 1..Len(ids) |->
                    _create_history(ids[k], rides[ids[k]].status, "critical", NULL,
                                    "Auto-marked as critical: < 3h to scheduled time")]
        /\ notifications' = notifications \o
                Flatten([k \in 1..Len(ids) |-> AdminNotifications("ride_critical", ids[k])])
        /\ resp' = Response("sweep", 200, 0, Len(ids))

\* tasks/critical_rides.py _run_check + ride_service.py check_critical_rides
CheckCriticalRides ==
    /\ check_critical_rides(now)
    /\ UNCHANGED <<drivers, config, offer_cache, next_search, next_order, now, inflight>>

\* a failing run that commits the escalations made before the error
RunCheckFailsKeepingPrefix(k) ==
    LET ids  == IdSeq({i \in RideIds : SweepSelects(rides[i], now)})
        done == {ids[j] : j \in 1..(k - 1)}
    IN  /\ k \in 1..Len(ids)
        /\ rides' = [i \in RideIds |->
                       IF i \in done
                       THEN [rides[i] EXCEPT !.status = "critical", !.critical_at = now]
                       ELSE rides[i]]
        /\ resp' = Response("sweep", 500, ids[k], 0)
        /\ UNCHANGED <<history, notifications, drivers, config, offer_cache,
                       next_search, next_order, now, inflight>>

\* tasks/critical_rides.py _run_check when check_critical_rides raises while it
\* escalates the k-th ride selected (or at the flush after it): the exception leaves
\* the loop, the session is rolled back and the task fails
RunCheckFails(k) ==
    LET ids == IdSeq({i \in RideIds : SweepSelects(rides[i], now)})
    IN  /\ k \in 1..Len(ids)
        /\ resp' = Response("sweep", 500, ids[k], 0)
        /\ UNCHANGED <<rides, history, notifications, drivers, config, offer_cache,
                       next_search, next_order, now, inflight>>

\* celery_app.py beat_schedule, the interval of the sweep: 300 s, in minutes
BEAT_SCHEDULE == 5

\* celery_app.py beat_schedule + tasks/critical_rides.py check_critical_rides_task:
\* the interval has passed since the last run and the task runs and commits
check_critical_rides_task ==
    /\ now + BEAT_SCHEDULE <= BEAT_SCHEDULE * MaxBeats
    /\ now' = now + BEAT_SCHEDULE
    /\ check_critical_rides(now + BEAT_SCHEDULE)
    /\ UNCHANGED <<drivers, config, offer_cache, next_search, next_order, inflight>>

\* the clock advances
Tick(d) ==
    /\ now + d <= MaxNow
    /\ now' = now + d
    /\ UNCHANGED <<rides, history, notifications, drivers, config, offer_cache,
                   next_search, next_order, inflight, resp>>

----------------------------------------------------------------------------
(* Generic direct-booking endpoint *)

\* the rows a SELECT ... WHERE external_id = ext AND source_platform = plat returns
RidesByExternal(ext, plat) ==
    {i \in RideIds : rides[i].external_id = ext /\ rides[i].source_platform = plat}

\* api/webhook.py receive_booking; scalar_one_or_none raises on several rows (500)
ReceiveBooking(ext, plat, sched, price, dist) ==
    /\ IF ext # NULL /\ Cardinality(RidesByExternal(ext, plat)) > 1
       THEN /\ resp' = Response("booking", 500, 0, 0)
            /\ UNCHANGED rides
       ELSE IF ext # NULL /\ RidesByExternal(ext, plat) # {}
       THEN /\ resp' = Response("booking", 409, 0, 0)
            /\ UNCHANGED rides
       ELSE /\ Len(rides) < MaxRides
            /\ rides' = Append(rides, Ride(ext, plat, NULL, sched, price, dist, 0, NULL, NULL))
            /\ resp' = Response("booking", 201, Len(rides) + 1, 0)
    /\ UNCHANGED <<history, notifications, drivers, config, offer_cache, next_search,
                   next_order, now, inflight>>

----------------------------------------------------------------------------
(* Booking.com partner adapter *)

\* a validation that lets every request with an Authorization header through
ValidateWebhookSecretAnyHeader(authorization) ==
    \/ config.webhook_secret = ""
    \/ authorization # NULL

\* api/webhook.py _validate_webhook_secret: TRUE when the request is let through
_validate_webhook_secret(authorization) ==
    \/ config.webhook_secret = ""
    \/ /\ authorization # NULL
       /\ authorization = "Bearer " \o config.webhook_secret

\* a lookup by reference that names the platform wrongly and so finds nothing
RidesByReferenceWrongPlatform(rs, ref) ==
    {i \in 1..Len(rs) : rs[i].booking_reference = ref /\ rs[i].source_platform = "booking"}

\* the rows a SELECT ... WHERE booking_reference = ref AND source_platform =
\* 'booking.com' returns from a rides table
RidesByReference(rs, ref) ==
    {i \in 1..Len(rs) : rs[i].booking_reference = ref /\ rs[i].source_platform = "booking.com"}

\* api/webhook.py booking_new
BookingNew(ref, authorization) ==
    /\ IF ~ _validate_webhook_secret(authorization)
       THEN /\ resp' = Response("booking_new", 401, 0, 0)
            /\ UNCHANGED <<rides, history>>
       ELSE IF Cardinality(RidesByReference(rides, ref)) > 1
       THEN /\ resp' = Response("booking_new", 500, 0, 0)
            /\ UNCHANGED <<rides, history>>
       ELSE IF RidesByReference(rides, ref) # {}
       THEN /\ resp' = Response("booking_new", 204, 0, 0)
            /\ UNCHANGED <<rides, history>>
       ELSE /\ Len(rides) < MaxRides
            /\ rides' = Append(rides, Ride(ref, "booking.com", ref, now + 24 * HOUR,
                                           0, 0, 0, NULL, NULL))
            /\ history' = Append(history,
                                 _create_history(Len(rides) + 1, NULL, "to_assign", NULL,
                                                 "Booking received from Booking.com"))
            /\ resp' = Response("booking_new", 204, Len(rides) + 1, 0)
    /\ UNCHANGED <<notifications, drivers, config, offer_cache, next_search,
                   next_order, now, inflight>>

\* api/webhook.py booking_update, action CANCELLATION: the row as written
WebhookCancelled(ride) == [ride EXCEPT !.status = "cancelled"]

\* api/webhook.py booking_update; pickup is the amended pickupDateTime (NoTime: absent)
BookingUpdate(ref, action, pickup, authorization) ==
    /\ IF ~ _validate_webhook_secret(authorization)
       THEN /\ resp' = Response("booking_update", 401, 0, 0)
            /\ UNCHANGED <<rides, history>>
       ELSE IF Cardinality(RidesByReference(rides, ref)) > 1
       THEN /\ resp' = Response("booking_update", 500, 0, 0)
            /\ UNCHANGED <<rides, history>>
       ELSE IF RidesByReference(rides, ref) = {}
       THEN /\ resp' = Response("booking_update", 204, 0, 0)
            /\ UNCHANGED <<rides, history>>
       ELSE LET r == CHOOSE i \in RidesByReference(rides, ref) : TRUE
            IN  /\ resp' = Response("booking_update", 204, r, 0)
                /\ IF action = "CANCELLATION"
                   THEN /\ rides' = [rides EXCEPT ![r] = WebhookCancelled(@)]
                        /\ history' = Append(history,
                                _create_history(r, rides[r].status, "cancelled", NULL,
                                                "Cancelled by Booking.com"))
                   ELSE IF action = "AMENDMENT"
                   THEN /\ rides' = [rides EXCEPT ![r] =
                                       IF pickup # NoTime
                                       THEN [@ EXCEPT !.scheduled_at = pickup]
                                       ELSE @]
                        /\ history' = Append(history,
                                _create_history(r, rides[r].status, rides[r].status, NULL,
                                                "Booking amended by Booking.com"))
                   ELSE UNCHANGED <<rides, history>>
    /\ UNCHANGED <<notifications, drivers, config, offer_cache, next_search,
                   next_order, now, inflight>>

\* booking_service.py BASE_PRICE_PER_KM, cents per km
BASE_PRICE_PER_KM == 180

\* booking_service.py MIN_PRICE, cents
MIN_PRICE == 2500

\* booking_service.py calculate_search_price, the price in cents for a distance in
\* tenths of a km (0: drivingDistanceInKm absent or 0, taken as 20 km)
calculate_search_price(distance_km) ==
    LET d == IF distance_km = 0 THEN 200 ELSE distance_km
        price == (d * BASE_PRICE_PER_KM) \div 10
    IN  IF price >= MIN_PRICE THEN price ELSE MIN_PRICE

\* booking_service.py calculate_search_price, the transport category
SearchCategory(passengers) ==
    IF passengers > 6 THEN "MINIBUS"
    ELSE IF passengers > 4 THEN "PEOPLE_CARRIER"
    ELSE "STANDARD"

\* api/webhook.py booking_search
BookingSearch(authorization, distance_km, passengers) ==
    /\ IF ~ _validate_webhook_secret(authorization)
       THEN resp' = Response("booking_search", 401, 0, 0)
       ELSE resp' = [Response("booking_search", 200, 0, calculate_search_price(distance_km))
                       EXCEPT !.text = SearchCategory(passengers)]
    /\ UNCHANGED <<rides, history, notifications, drivers, config, offer_cache,
                   next_search, next_order, now, inflight>>

\* an incident webhook that only logs the incident: no history row is added
BookingIncidentLogsOnly(ref, authorization) ==
    /\ resp' = IF ~ _validate_webhook_secret(authorization)
               THEN Response("booking_incident", 401, 0, 0)
               ELSE IF Cardinality(RidesByReference(rides, ref)) > 1
               THEN Response("booking_incident", 500, 0, 0)
               ELSE IF RidesByReference(rides, ref) = {}
               THEN Response("booking_incident", 204, 0, 0)
               ELSE Response("booking_incident", 204,
                             CHOOSE i \in RidesByReference(rides, ref) : TRUE, 0)
    /\ UNCHANGED <<rides, history, notifications, drivers, config, offer_cache,
                   next_search, next_order, now, inflight>>

\* api/webhook.py booking_incident
BookingIncident(ref, authorization) ==
    /\ IF ~ _validate_webhook_secret(authorization)
       THEN /\ resp' = Response("booking_incident", 401, 0, 0)
            /\ UNCHANGED history
       ELSE IF Cardinality(RidesByReference(rides, ref)) > 1
       THEN /\ resp' = Response("booking_incident", 500, 0, 0)
            /\ UNCHANGED history
       ELSE IF RidesByReference(rides, ref) = {}
       THEN /\ resp' = Response("booking_incident", 204, 0, 0)
            /\ UNCHANGED history
       ELSE LET r == CHOOSE i \in RidesByReference(rides, ref) : TRUE
            IN  /\ resp' = Response("booking_incident", 204, r, 0)
                /\ history' = Append(history,
                        _create_history(r, rides[r].status, rides[r].status, NULL,
                                        "Booking.com incident"))
    /\ UNCHANGED <<rides, notifications, drivers, config, offer_cache, next_search,
                   next_order, now, inflight>>

\* a field left out of a BookingConfigUpdate body (exclude_unset)
Unset == "unset"

\* an update that leaves the cached token in place when the credentials change
UpdateConfigKeepsToken(client_id, webhook_secret, enabled) ==
    /\ config' = [config EXCEPT
                    !.client_id = IF client_id = Unset THEN @ ELSE client_id,
                    !.webhook_secret = IF webhook_secret = Unset THEN @ ELSE webhook_secret,
                    !.is_enabled = IF enabled = Unset THEN @ ELSE (enabled = "true")]
    /\ resp' = Response("update_config", 200, 0, 0)
    /\ UNCHANGED <<rides, history, notifications, drivers, offer_cache, next_search,
                   next_order, now, inflight>>

\* api/booking_admin.py update_config; client_id stands for the credential pair,
\* enabled is "true", "false" or Unset
UpdateConfig(client_id, webhook_secret, enabled) ==
    /\ config' = [config EXCEPT
                    !.client_id = IF client_id = Unset THEN @ ELSE client_id,
                    !.webhook_secret = IF webhook_secret = Unset THEN @ ELSE webhook_secret,
                    !.is_enabled = IF enabled = Unset THEN @ ELSE (enabled = "true"),
                    !.access_token = IF client_id = Unset THEN @ ELSE NULL,
                    !.token_expires_at = IF client_id = Unset THEN @ ELSE NoTime]
    /\ resp' = Response("update_config", 200, 0, 0)
    /\ UNCHANGED <<rides, history, notifications, drivers, offer_cache, next_search,
                   next_order, now, inflight>>

\* a cached-token test without the 60 s buffer
TokenIsFreshNoBuffer(cfg, t) ==
    /\ cfg.access_token # NULL
    /\ cfg.token_expires_at # NoTime
    /\ cfg.token_expires_at > t

\* booking_service.py get_oauth_token, the cached-token test (60 s = 1 minute buffer)
TokenIsFresh(cfg, t) ==
    /\ cfg.access_token # NULL
    /\ cfg.token_expires_at # NoTime
    /\ cfg.token_expires_at > t + 1

\* booking_service.py get_oauth_token: the config row after the call; the token the
\* remote side issues names the credentials it was issued for and the time of issue
get_oauth_token(cfg, t, expires_in) ==
    IF TokenIsFresh(cfg, t)
    THEN cfg
    ELSE [cfg EXCEPT !.access_token = "token:" \o cfg.client_id \o "@" \o ToString(t),
                     !.token_expires_at = t + expires_in]

\* booking_service.py get_oauth_token: the number of token requests a call sends
TokenRequests(cfg, t) == IF TokenIsFresh(cfg, t) THEN 0 ELSE 1

\* api/booking_admin.py test_booking_connection + booking_service.py test_connection;
\* val 1: success, -1: failure; text is the token of the message
TestConnection(tokenOk, expires_in) ==
    /\ IF config.client_id = ""
       THEN /\ resp' = Response("test", 200, 0, -1)
            /\ UNCHANGED config
       ELSE IF ~ TokenIsFresh(config, now) /\ ~ tokenOk
       THEN /\ resp' = [Response("test", 200, 0, -1) EXCEPT !.calls = 1]
            /\ UNCHANGED config
       ELSE /\ config' = get_oauth_token(config, now, expires_in)
            /\ resp' = [Response("test", 200, 0, 1)
                          EXCEPT !.text = config'.access_token,
                                 !.calls = TokenRequests(config, now)]
    /\ UNCHANGED <<rides, history, notifications, drivers, offer_cache, next_search,
                   next_order, now, inflight>>

\* booking_service.py accept_booking / reject_booking, the path of the request sent
\* to the remote side: customer reference and booking reference as the f-string
\* writes them
ResponsesUrl(ride) ==
    (IF ride.booking_customer_ref = NULL THEN "None" ELSE ride.booking_customer_ref)
        \o "/" \o ride.booking_reference

\* booking_service.py accept_booking, called with ride r.  tokenOk / callOk: whether
\* the token request (when one is made) and the remote call succeed.  val 1: True
\* returned, -1: False returned; text: the path of the remote call when one is sent
AcceptBooking(r, tokenOk, callOk, expires_in) ==
    /\ r \in RideIds
    /\ IF ~ config.is_enabled
       THEN /\ resp' = Response("accept_booking", 0, r, 1)
            /\ UNCHANGED config
       ELSE IF rides[r].booking_reference = NULL \/ rides[r].booking_customer_ref = NULL
       THEN /\ resp' = Response("accept_booking", 0, r, 1)
            /\ UNCHANGED config
       ELSE IF ~ TokenIsFresh(config, now) /\ ~ tokenOk
       THEN /\ resp' = [Response("accept_booking", 0, r, 0 - 1) EXCEPT !.calls = 1]
            /\ UNCHANGED config
       ELSE /\ config' = get_oauth_token(config, now, expires_in)
            /\ resp' = [Response("accept_booking", 0, r, IF callOk THEN 1 ELSE 0 - 1)
                          EXCEPT !.calls = TokenRequests(config, now),
                                 !.text = ResponsesUrl(rides[r])]
    /\ UNCHANGED <<rides, history, notifications, drivers, offer_cache, next_search,
                   next_order, now, inflight>>

\* booking_service.py reject_booking, called with ride r
RejectBooking(r, tokenOk, callOk, expires_in) ==
    /\ r \in RideIds
    /\ IF ~ config.is_enabled \/ rides[r].booking_reference = NULL
       THEN /\ resp' = Response("reject_booking", 0, r, 1)
            /\ UNCHANGED config
       ELSE IF ~ TokenIsFresh(config, now) /\ ~ tokenOk
       THEN /\ resp' = [Response("reject_booking", 0, r, 0 - 1) EXCEPT !.calls = 1]
            /\ UNCHANGED config
       ELSE /\ config' = get_oauth_token(config, now, expires_in)
            /\ resp' = [Response("reject_booking", 0, r, IF callOk THEN 1 ELSE 0 - 1)
                          EXCEPT !.calls = TokenRequests(config, now),
                                 !.text = ResponsesUrl(rides[r])]
    /\ UNCHANGED <<rides, history, notifications, drivers, offer_cache, next_search,
                   next_order, now, inflight>>

\* a conversion that leaves the remote state hash out of the new ride
BookingToRideWithoutHash(booking, t) ==
    Ride(booking.ref, "booking.com", booking.ref,
         IF booking.pickup # NoTime THEN booking.pickup ELSE t + 24 * HOUR,
         0, 0, 0, NULL, NULL)

\* booking_service.py _booking_to_ride; a remote booking is [ref, hash, pickup]
_booking_to_ride(booking, t) ==
    Ride(booking.ref, "booking.com", booking.ref,
         IF booking.pickup # NoTime THEN booking.pickup ELSE t + 24 * HOUR,
         0, 0, 0, NULL, booking.hash)

\* booking_service.py poll_new_bookings, the loop over the fetched list: st holds the
\* session's rides and history, the two counters and whether an entry has raised:
\* model_validate on an entry without its required bookingReference (ref NULL), or
\* the lookup on two matching rides
RECURSIVE PollLoop(_, _, _)
PollLoop(st, bookings, t) ==
    IF bookings = << >> \/ st.failed
    THEN st
    ELSE LET booking == Head(bookings)
             found   == RidesByReference(st.rides, booking.ref)
         IN  IF booking.ref = NULL
             THEN [st EXCEPT !.failed = TRUE]
             ELSE IF Cardinality(found) > 1
             THEN [st EXCEPT !.failed = TRUE]
             ELSE IF found # {}
             THEN LET r == CHOOSE i \in found : TRUE
                  IN  IF booking.hash # NULL /\ st.rides[r].booking_state_hash # booking.hash
                      THEN PollLoop([st EXCEPT !.rides[r].booking_state_hash = booking.hash,
                                               !.updated = @ + 1],
                                    Tail(bookings), t)
                      ELSE PollLoop(st, Tail(bookings), t)
             ELSE PollLoop([st EXCEPT
                              !.rides = Append(@, _booking_to_ride(booking, t)),
                              !.history = Append(@,
                                  _create_history(Len(st.rides) + 1, NULL, "to_assign", NULL,
                                                  "Imported from Booking.com")),
                              !.new = @ + 1],
                           Tail(bookings), t)

\* api/booking_admin.py sync_bookings + booking_service.py poll_new_bookings.
\* tokenOk / fetchOk: whether the token request (when one is made) and the fetch
\* succeed.  sync_bookings catches the poll's exception and answers success = false
\* (val -1); what the session holds by then is committed with the request.
PollNewBookings(bookings, tokenOk, fetchOk, expires_in) ==
    /\ IF ~ config.is_enabled
       THEN /\ resp' = Response("sync", 200, 0, 0)
            /\ UNCHANGED <<rides, history, config>>
       ELSE IF ~ TokenIsFresh(config, now) /\ ~ tokenOk
       THEN /\ resp' = [Response("sync", 200, 0, -1) EXCEPT !.calls = 1]
            /\ UNCHANGED <<rides, history, config>>
       ELSE IF ~ fetchOk
       THEN /\ resp' = [Response("sync", 200, 0, -1) EXCEPT !.calls = TokenRequests(config, now)]
            /\ config' = get_oauth_token(config, now, expires_in)
            /\ UNCHANGED <<rides, history>>
       ELSE LET st == PollLoop([rides |-> rides, history |-> history, new |-> 0,
                                updated |-> 0, failed |-> FALSE], bookings, now)
            IN  /\ Len(st.rides) <= MaxRides
                /\ rides' = st.rides
                /\ history' = st.history
                /\ config' = IF st.failed
                             THEN get_oauth_token(config, now, expires_in)
                             ELSE [get_oauth_token(config, now, expires_in)
                                     EXCEPT !.last_sync_at = now]
                /\ resp' = [(IF st.failed
                                THEN Response("sync", 200, 0, -1)
                                ELSE Response("sync", 200, st.new, st.updated))
                              EXCEPT !.calls = TokenRequests(config, now)]
    /\ UNCHANGED <<notifications, drivers, offer_cache, next_search, next_order, now,
                   inflight>>

----------------------------------------------------------------------------
(* ETG supplier adapter *)

\* schemas/etg.py TransferCategory
TransferCategory ==
    {"micro", "economy", "economy_mpv", "economy_van", "standard", "standard_mpv",
     "standard_van", "business", "business_mpv", "business_van", "first", "first_mpv",
     "first_van", "luxury", "luxury_mpv", "luxury_van", "minibus", "minibus_large",
     "bus", "electro_economy", "electro_standard", "electro_business", "electro_first",
     "electro_luxury", "electro_minibus", "electro_bus"}

\* etg_service.py CATEGORY_PRICING, cents per km
CATEGORY_PRICING(cat) ==
    CASE cat = "micro"            -> 80
      [] cat = "economy"          -> 100
      [] cat = "economy_mpv"      -> 120
      [] cat = "economy_van"      -> 130
      [] cat = "standard"         -> 130
      [] cat = "standard_mpv"     -> 150
      [] cat = "standard_van"     -> 160
      [] cat = "business"         -> 180
      [] cat = "business_mpv"     -> 200
      [] cat = "business_van"     -> 210
      [] cat = "first"            -> 250
      [] cat = "first_mpv"        -> 270
      [] cat = "first_van"        -> 280
      [] cat = "luxury"           -> 350
      [] cat = "luxury_mpv"       -> 370
      [] cat = "luxury_van"       -> 380
      [] cat = "minibus"          -> 200
      [] cat = "minibus_large"    -> 250
      [] cat = "bus"              -> 300
      [] cat = "electro_economy"  -> 110
      [] cat = "electro_standard" -> 140
      [] cat = "electro_business" -> 190
      [] cat = "electro_first"    -> 260
      [] cat = "electro_luxury"   -> 360
      [] cat = "electro_minibus"  -> 210
      [] cat = "electro_bus"      -> 310
      [] OTHER                    -> 150

Max(a, b) == IF a >= b THEN a ELSE b

\* a minimum fare of fifteen times the rate
MinFareFifteenKm(cat) == Max(1500, CATEGORY_PRICING(cat) * 15)

\* etg_service.py MIN_FARE: max(15.0, price * 10), cents
MIN_FARE(cat) == Max(1500, CATEGORY_PRICING(cat) * 10)

\* etg_service.py CHILD_SEAT_PRICE, cents
CHILD_SEAT_PRICE == 500

\* etg_service.py _calculate_price, in cents for a distance in tenths of a km.  Every
\* rate is a multiple of 10 cents, so rate * distance is a whole number of cents and
\* round(price, 2) returns it.
_calculate_price(category, distance_km, child_seat_count) ==
    LET base    == (CATEGORY_PRICING(category) * distance_km) \div 10
        minimum == MIN_FARE(category)
    IN  Max(base, minimum) + child_seat_count * CHILD_SEAT_PRICE

\* etg_service.py _estimate_duration_min: max(15, int(distance_km / 40 * 60))
_estimate_duration_min(distance_km) == Max(15, (distance_km * 60) \div 400)

\* etg_service.py _classify_vehicle.  A vehicle is [seats, electric, luxury, premium,
\* van]: the seat count and the outcome of the keyword tests on fuel type, make
\* (luxury brands; the further premium brands) and model (van keywords).
_classify_vehicle(v) ==
    LET seats      == IF v.seats = 0 THEN 4 ELSE v.seats
        is_premium == v.luxury \/ v.premium
        is_mpv     == seats >= 6 /\ ~ v.van
        is_minibus == seats >= 8
    IN  IF is_minibus
        THEN (IF v.electric THEN {"electro_minibus"} ELSE {})
             \cup (IF seats >= 16 THEN {"minibus_large", "bus"} ELSE {})
             \cup {"minibus"}
        ELSE IF v.van
        THEN (IF v.electric THEN {"electro_business"} ELSE {})
             \cup (IF v.luxury THEN {"luxury_van", "first_van"} ELSE {})
             \cup (IF is_premium THEN {"business_van"} ELSE {})
             \cup {"standard_van", "economy_van"}
        ELSE IF is_mpv
        THEN (IF v.electric THEN {"electro_business"} ELSE {})
             \cup (IF v.luxury THEN {"luxury_mpv", "first_mpv"} ELSE {})
             \cup (IF is_premium THEN {"business_mpv"} ELSE {})
             \cup {"standard_mpv", "economy_mpv"}
        ELSE (IF v.electric
              THEN (IF v.luxury THEN {"electro_luxury", "electro_first"} ELSE {})
                   \cup (IF is_premium THEN {"electro_business"} ELSE {})
                   \cup {"electro_standard", "electro_economy"}
              ELSE {})
             \cup (IF v.luxury THEN {"luxury", "first"} ELSE {})
             \cup (IF is_premium THEN {"business"} ELSE {})
             \cup {"standard", "economy"}
             \cup (IF seats <= 3 THEN {"micro"} ELSE {})

\* the vehicles of the active drivers (table drivers joined with users)
Fleet ==
    [d \in DriverUsers |->
        IF d = "d1"
        THEN [seats |-> 4, electric |-> FALSE, luxury |-> TRUE, premium |-> FALSE, van |-> FALSE]
        ELSE [seats |-> 8, electric |-> TRUE, luxury |-> FALSE, premium |-> FALSE, van |-> TRUE]]

\* etg_service.py _generate_offer_id: the hash of (search id, category), taken as
\* the pair itself (no collision)
_generate_offer_id(search_id, category) == [sid |-> search_id, cat |-> category]

\* etg_service.py _generate_order_id: "AV" + 13 hex digits of a uuid4, never repeated
_generate_order_id(n) == "AV" \o ToString(n)

\* a cache write that spares the searches a ride was booked from: it drops the
\* oldest search no ride was booked from
CacheInsertSparesBooked(cache, entry) ==
    LET c        == Append(cache, entry)
        unbooked == {k \in 1..Len(c) :
                        \A i \in RideIds : rides[i].booking_raw_payload.sid # c[k].sid}
        victim   == IF unbooked = {} THEN 1
                    ELSE CHOOSE k \in unbooked : \A j \in unbooked : k <= j
    IN  IF Len(c) > MaxCachedSearches
        THEN SelectSeq([k \in 1..Len(c) |-> IF k = victim THEN [sid |-> 0] ELSE c[k]],
                       LAMBDA e : e.sid # 0)
        ELSE c

\* etg_service.py search_offers, the cache write: insert, then drop the oldest
\* search when the cache holds more than the maximum
CacheInsert(cache, entry) ==
    LET c == Append(cache, entry)
    IN  IF Len(c) > MaxCachedSearches THEN Tail(c) ELSE c

\* api/etg.py etg_search + etg_service.py search_offers; distance_km is what
\* _estimate_distance_km returns for the two points (300 when no coordinates)
SearchOffers(authOk, passengers, distance_km, child_seats, start_date_time) ==
    /\ IF ~ authOk
       THEN /\ resp' = Response("etg_search", 401, 0, 0)
            /\ UNCHANGED <<offer_cache, next_search>>
       ELSE LET search_id == next_search + 1
                cats == UNION {_classify_vehicle(Fleet[d]) :
                                 d \in {x \in DriverUsers : Fleet[x].seats # 0
                                                            /\ Fleet[x].seats >= passengers}}
                offer_data == [c \in cats |->
                                 [category |-> c,
                                  price |-> _calculate_price(c, distance_km, child_seats),
                                  distance |-> distance_km,
                                  duration |-> _estimate_duration_min(distance_km),
                                  start_date_time |-> start_date_time]]
            IN  /\ next_search < MaxSearches
                /\ next_search' = search_id
                /\ offer_cache' = CacheInsert(offer_cache,
                                              [sid |-> search_id, offers |-> offer_data])
                /\ resp' = Response("etg_search", 200, 0, Cardinality(cats))
    /\ UNCHANGED <<rides, history, notifications, drivers, config, next_order, now,
                   inflight>>

\* a scan of the cache that matches on the category alone
OfferEntriesAnySearch(cache, offer_id) ==
    {k \in 1..Len(cache) : offer_id.cat \in DOMAIN cache[k].offers}

\* etg_service.py book_transfer, the scan of the cache: the cached searches that
\* hold the offer id
OfferEntries(cache, offer_id) ==
    {k \in 1..Len(cache) : /\ cache[k].sid = offer_id.sid
                           /\ offer_id.cat \in DOMAIN cache[k].offers}

\* api/etg.py etg_book + etg_service.py book_transfer
BookTransfer(authOk, offer_id) ==
    /\ IF ~ authOk
       THEN /\ resp' = Response("etg_book", 401, 0, 0)
            /\ UNCHANGED <<rides, next_order>>
       ELSE IF OfferEntries(offer_cache, offer_id) = {}
       THEN /\ resp' = Response("etg_book", 400, 0, 0)
            /\ UNCHANGED <<rides, next_order>>
       ELSE LET k == CHOOSE k \in OfferEntries(offer_cache, offer_id) : TRUE
                offer_data == offer_cache[k].offers[offer_id.cat]
                order_id == _generate_order_id(next_order + 1)
            IN  /\ Len(rides) < MaxRides
                /\ next_order' = next_order + 1
                /\ rides' = Append(rides,
                          [Ride(order_id, "etg", order_id, offer_data.start_date_time,
                                offer_data.price, offer_data.distance, 0, NULL, NULL)
                             EXCEPT !.booking_raw_payload = offer_id])
                /\ resp' = Response("etg_book", 200, Len(rides) + 1, offer_data.price)
    /\ UNCHANGED <<history, notifications, drivers, config, offer_cache, next_search,
                   now, inflight>>

\* the rows a SELECT ... WHERE external_id = order_id returns
RidesByOrderId(order_id) == {i \in RideIds : rides[i].external_id = order_id}

\* a mapping that reports a ride under way as completed
EtgStatusUnderWayCompleted(status) ==
    IF status \in {"completed", "in_progress"} THEN "completed"
    ELSE IF status = "cancelled" THEN "cancelled"
    ELSE "active"

\* etg_service.py get_order_status, the value of etg_status for a ride's status
etg_status(status) ==
    IF status \in {"completed"} THEN "completed"
    ELSE IF status \in {"cancelled"} THEN "cancelled"
    ELSE "active"

\* api/etg.py etg_status + etg_service.py get_order_status; scalar_one_or_none
\* raises on several rows (500)
GetOrderStatus(authOk, order_id) ==
    /\ IF ~ authOk
       THEN resp' = Response("etg_status", 401, 0, 0)
       ELSE IF Cardinality(RidesByOrderId(order_id)) > 1
       THEN resp' = Response("etg_status", 500, 0, 0)
       ELSE IF RidesByOrderId(order_id) = {}
       THEN resp' = Response("etg_status", 404, 0, 0)
       ELSE LET r == CHOOSE i \in RidesByOrderId(order_id) : TRUE
            IN  resp' = [Response("etg_status", 200, r, rides[r].price)
                           EXCEPT !.text = etg_status(rides[r].status)]
    /\ UNCHANGED <<rides, history, notifications, drivers, config, offer_cache,
                   next_search, next_order, now, inflight>>

\* a penalty that also falls due exactly 24 hours ahead
CancelPenaltyInclusive(ride, t) ==
    IF ride.scheduled_at - t <= 24 * HOUR THEN ride.price ELSE 0

\* etg_service.py cancel_order, the penalty
CancelPenalty(ride, t) ==
    IF ride.scheduled_at - t < 24 * HOUR THEN ride.price ELSE 0

\* api/etg.py etg_cancel + etg_service.py cancel_order
CancelOrder(authOk, order_id) ==
    /\ IF ~ authOk
       THEN /\ resp' = Response("etg_cancel", 401, 0, 0)
            /\ UNCHANGED rides
       ELSE IF RidesByOrderId(order_id) = {}
       THEN /\ resp' = Response("etg_cancel", 404, 0, 0)
            /\ UNCHANGED rides
       ELSE IF Cardinality(RidesByOrderId(order_id)) > 1
       THEN /\ resp' = Response("etg_cancel", 500, 0, 0)
            /\ UNCHANGED rides
       ELSE LET r == CHOOSE i \in RidesByOrderId(order_id) : TRUE
            IN  IF rides[r].status \in {"completed", "cancelled"}
                THEN /\ resp' = Response("etg_cancel", 400, r, 0)
                     /\ UNCHANGED rides
                ELSE /\ rides' = [rides EXCEPT ![r] = [@ EXCEPT !.status = "cancelled"]]
                     /\ resp' = Response("etg_cancel", 200, r, CancelPenalty(rides[r], now))
    /\ UNCHANGED <<history, notifications, drivers, config, offer_cache, next_search,
                   next_order, now, inflight>>

----------------------------------------------------------------------------
(* The dispatch system, every request handled as one unit of work *)

ExternalIds == {NULL, "B1"}

BookingReferences == {"B1"}

Authorizations == {NULL, "Bearer s3cret"}

\* the offer ids a caller can send: issued ones and ones no search has issued
OfferIds == {_generate_offer_id(s, c) : s \in 1..MaxSearches, c \in {"standard", "bus"}}

\* the order ids a caller can send
OrderIds == {"B1", _generate_order_id(1)}

\* remote bookings lists of the poll
RemoteBookings == {[ref |-> "B1", hash |-> h, pickup |-> NoTime] : h \in {NULL, "h1"}}

RemoteLists == {<< >>} \cup {<<b>> : b \in RemoteBookings}

\* the ride lifecycle engine and the sweep
\* the users an assignment can name: a driver, an admin, a user that does not exist
Assignees == {"d1", "adm", "ghost"}

Lifecycle ==
    \/ \E r \in 1..MaxRides, d \in Assignees :
          Len(notifications) < MaxNotifications /\ AssignRide(r, d, "adm")
    \/ \E r \in 1..MaxRides, u \in Users :
          Len(notifications) < MaxNotifications /\ AcceptRide(r, u)
    \/ \E r \in 1..MaxRides, u \in Users : StartRide(r, u)
    \/ \E r \in 1..MaxRides, u \in Users : CompleteRide(r, u)
    \/ \E r \in 1..MaxRides, u \in Users :
          Len(notifications) < MaxNotifications /\ CancelRide(r, u)
    \/ Len(notifications) < MaxNotifications /\ CheckCriticalRides

\* every entry point that writes a ride's status, on rides created by an admin
\* with a driver share and by the Booking.com new-booking webhook
Next ==
    \/ Lifecycle
    \/ \E drv \in {NULL, "d1"} :
          CreateRide("adm", NULL, "manual", now + 2 * HOUR, 10000, 520, 6000, drv)
    \/ \E ref \in BookingReferences : BookingNew(ref, NULL)
    \/ \E ref \in BookingReferences :
          Len(history) < MaxHistory /\ BookingUpdate(ref, "CANCELLATION", NoTime, NULL)
    \/ \E o \in OrderIds : CancelOrder(TRUE, o)

Spec == Init /\ [][Next]_vars

----------------------------------------------------------------------------
(* Claims on the lifecycle engine *)

\* the operations that answer 400 for a transition the table has no edge for
TransitionOps == {"accept", "start", "complete", "cancel", "etg_cancel"}

\* C1: every change of a ride's status, whichever entry point writes it, follows an
\* edge of VALID_TRANSITIONS, and a request refused as invalid-state (400) leaves
\* the rides and the history as they were.
C1_StatusFollowsTable ==
    [][ /\ \A i \in RideIds :
              rides'[i].status # rides[i].status
                  => rides'[i].status \in VALID_TRANSITIONS(rides[i].status)
        /\ (resp' # resp /\ resp'.op \in TransitionOps /\ resp'.code = 400)
              => (rides' = rides /\ history' = history) ]_vars

\* the history rows that record ride r reaching status s
RowsInto(r, s) ==
    {k \in 1..Len(history) : history[k].ride_id = r /\ history[k].new_status = s
                                /\ history[k].old_status # s}

\* the rides whose status becomes `completed` in a step, for driver d
CompletedNow(d) ==
    {i \in RideIds : rides[i].status # "completed" /\ rides'[i].status = "completed"
                       /\ rides[i].driver_id = d}

\* the history rows that record a completion by driver d
CompletionsBy(d) ==
    {k \in 1..Len(history) : history[k].new_status = "completed"
                                /\ history[k].changed_by = d}

\* C2: a complete call on a ride that is already completed fails (400) and writes
\* nothing; a step changes a driver's aggregates only by completing one ride of that
\* driver, adding 1 ride, the ride's distance and its driver share; no ride has two
\* completion rows and total_rides counts the completions of the driver.
C2_CompleteOnce ==
    /\ [](\A r \in RideIds : Cardinality(RowsInto(r, "completed")) <= 1)
    /\ [](\A d \in DriverUsers : drivers[d].total_rides = Cardinality(CompletionsBy(d)))
    /\ [][ /\ \A r \in RideIds, u \in Users :
                 (CompleteRide(r, u) /\ rides[r].status = "completed")
                     => /\ resp'.code \in {400, 403}
                        /\ (rides[r].driver_id = u => resp'.code = 400)
                        /\ UNCHANGED <<rides, history, drivers>>
           /\ \A d \in DriverUsers :
                 /\ Cardinality(CompletedNow(d)) <= 1
                 /\ CompletedNow(d) = {} => drivers'[d] = drivers[d]
                 /\ \A i \in CompletedNow(d) :
                       drivers'[d] = [total_rides |-> drivers[d].total_rides + 1,
                                      total_km |-> drivers[d].total_km + rides[i].distance_km,
                                      total_earnings |-> drivers[d].total_earnings
                                                           + rides[i].driver_share] ]_vars

\* C2 witness: the driver of a completed ride has called complete again and was
\* refused, with one completion counted
C2_Witness ==
    /\ resp.op = "complete" /\ resp.code = 400
    /\ resp.ride \in RideIds
    /\ rides[resp.ride].status = "completed"
    /\ drivers[rides[resp.ride].driver_id].total_rides = 1

----------------------------------------------------------------------------
(* Lifecycle requests running concurrently.  get_ride is a plain SELECT (no FOR    *)
(* UPDATE, no version column) and the request commits when the endpoint returns:   *)
(* between the read and the write other requests may commit.  The write is the     *)
(* UPDATE of the columns the request changed, the INSERTs, and the Driver row's    *)
(* read and UPDATE, under the database's default READ COMMITTED isolation.         *)

\* ride_service.py get_ride in a request of its own transaction: the row is read
BeginLifecycle(slot, op, r, u) ==
    /\ \A t \in inflight : t.slot # slot
    /\ RefusedEarly(op, r, u).code = 0
    /\ inflight' = inflight \cup {[slot |-> slot, op |-> op, ride |-> r, caller |-> u,
                                   seen |-> rides[r]]}
    /\ UNCHANGED <<rides, history, notifications, drivers, config, offer_cache,
                   next_search, next_order, now, resp>>

\* the rest of the request: the checks on the row read, the writes, the commit
FinishLifecycle(t) ==
    /\ t \in inflight
    /\ LifecycleFrom(t.op, t.ride, t.caller, t.seen)
    /\ inflight' = inflight \ {t}

NextConc ==
    \/ Len(rides) < MaxRides
          /\ CreateRide("adm", NULL, "manual", now + 2 * HOUR, 10000, 520, 6000, "d1")
    \/ \E slot \in 1..MaxInflight, op \in {"accept", "start", "complete", "cancel"},
          r \in 1..MaxRides, u \in {"d1"} : BeginLifecycle(slot, op, r, u)
    \/ \E t \in inflight :
          /\ Len(history) < MaxHistory
          /\ (t.op \in {"accept", "cancel"} => Len(notifications) < MaxNotifications)
          /\ FinishLifecycle(t)

SpecConc == Init /\ [][NextConc]_vars

\* the status an operation moves a ride to
TargetOf(op) ==
    CASE op = "accept" -> "booked" [] op = "start" -> "in_progress"
      [] op = "complete" -> "completed" [] op = "cancel" -> "cancelled"

\* the history rows of ride r with new_status s
RowsTo(r, s) ==
    {k \in 1..Len(history) : history[k].ride_id = r /\ history[k].new_status = s}

\* C3: of two concurrent requests for the same transition of a ride, the one that
\* writes second finds the status the first committed and is rejected (400) without
\* writing; so a ride has at most one history row into booked, in_progress,
\* completed or cancelled, and a driver's total_rides is the number of that
\* driver's completed rides.
C3_SecondIsRejected ==
    /\ [][ \A t \in inflight :
              (FinishLifecycle(t) /\ rides[t.ride].status = TargetOf(t.op))
                  => /\ resp'.code = 400
                     /\ UNCHANGED <<rides, history, notifications, drivers>> ]_vars
    /\ [](\A r \in RideIds : \A s \in {"booked", "in_progress", "completed", "cancelled"} :
              Cardinality(RowsTo(r, s)) <= 1)
    /\ [](\A d \in DriverUsers :
              drivers[d].total_rides =
                  Cardinality({r \in RideIds : rides[r].completed_at # NoTime
                                                  /\ rides[r].driver_id = d}))

----------------------------------------------------------------------------
(* Ingestion *)

IngestReferences == {"B1", "B2"}

\* the remote lists of a poll: up to two NEW bookings, a reference possibly twice
IngestBookings == {[ref |-> f, hash |-> "h1", pickup |-> NoTime] : f \in IngestReferences}

IngestLists ==
    {<< >>} \cup {<<b>> : b \in IngestBookings}
            \cup {<<a, b>> : a \in IngestBookings, b \in IngestBookings}

\* every path that creates a ride, with the cancellations that leave a reference
\* in place
NextIngest ==
    \/ \E ext \in {NULL, "B1"} :
          CreateRide("adm", ext, "booking.com", now + 2 * HOUR, 10000, 520, 6000, NULL)
    \/ \E ext \in {NULL, "B1"} :
          ReceiveBooking(ext, "booking.com", now + 2 * HOUR, 8500, 520)
    \/ \E ref \in IngestReferences, a \in Authorizations : BookingNew(ref, a)
    \/ \E l \in IngestLists, tokenOk \in BOOLEAN, fetchOk \in BOOLEAN :
          PollNewBookings(l, tokenOk, fetchOk, 60)
    \/ \E s \in {Unset, "s3cret"}, e \in {Unset, "true"} : UpdateConfig(Unset, s, e)
    \/ \E ref \in IngestReferences :
          /\ Len(history) < MaxHistory
          /\ BookingUpdate(ref, "CANCELLATION", NoTime, "Bearer s3cret")
    \/ \E o \in OfferIds : BookTransfer(TRUE, o)
    \/ SearchOffers(TRUE, 1, 500, 0, now + 25 * HOUR)

SpecIngest == Init /\ [][NextIngest]_vars

\* the rides that carry the pair (ext, plat)
WithPair(rs, ext, plat) ==
    {i \in 1..Len(rs) : rs[i].external_id = ext /\ rs[i].source_platform = plat}

\* C4: a submission to the generic direct-booking endpoint of a pair no ride
\* carries answers 201 and adds one ride in to_assign; a submission of a pair some
\* ride carries answers 409 and adds nothing; after either, exactly one ride
\* carries the pair.
C4_DirectDuplicateConflict ==
    [][ \A ext \in {"B1"}, plat \in {"booking.com"} :
           ReceiveBooking(ext, plat, now + 2 * HOUR, 8500, 520)
               => /\ IF WithPair(rides, ext, plat) = {}
                     THEN /\ resp'.code = 201
                          /\ Len(rides') = Len(rides) + 1
                          /\ rides'[Len(rides')].status = "to_assign"
                     ELSE /\ resp'.code = 409
                          /\ rides' = rides
                  /\ Cardinality(WithPair(rides', ext, plat)) = 1 ]_vars

\* C5: no two rides share a pair (external_id, source_platform) with external_id
\* present.
C5_UniqueExternalPair ==
    \A i \in RideIds, j \in RideIds :
        (i # j /\ rides[i].external_id # NULL)
            => ~ (rides[i].external_id = rides[j].external_id
                    /\ rides[i].source_platform = rides[j].source_platform)

\* the rides that carry a Booking.com reference
WithReference(rs, ref) ==
    {i \in 1..Len(rs) : rs[i].booking_reference = ref
                          /\ rs[i].source_platform = "booking.com"}

\* the creation rows (old_status null) of ride i
CreationRows(i) ==
    {k \in 1..Len(history) : history[k].ride_id = i /\ history[k].old_status = NULL}

\* C6: whatever new-booking webhooks and polls have carried a reference, at most one
\* ride carries it and that ride has exactly one creation row; an accepted webhook
\* and an enabled, successful poll leave exactly one ride for each reference they
\* carry; a webhook for a known reference answers 204 and changes nothing.
C6_OneRidePerReference ==
    /\ [](\A ref \in IngestReferences :
              /\ Cardinality(WithReference(rides, ref)) <= 1
              /\ \A i \in WithReference(rides, ref) : Cardinality(CreationRows(i)) = 1)
    /\ [][ /\ \A ref \in IngestReferences, a \in Authorizations :
                 (BookingNew(ref, a) /\ _validate_webhook_secret(a))
                     => /\ resp'.code = 204
                        /\ Cardinality(WithReference(rides', ref)) = 1
                        /\ WithReference(rides, ref) # {}
                              => UNCHANGED <<rides, history, notifications, drivers,
                                             config, offer_cache>>
           /\ \A l \in IngestLists :
                 (PollNewBookings(l, TRUE, TRUE, 60) /\ config.is_enabled)
                     => \A k \in 1..Len(l) :
                           Cardinality(WithReference(rides', l[k].ref)) = 1 ]_vars

\* C6 witness: a reference imported by a poll has then come by webhook, which was
\* answered 204 without creating a ride
C6_Witness ==
    /\ resp = Response("booking_new", 204, 0, 0)
    /\ \E i \in WithReference(rides, "B1") :
          \E k \in CreationRows(i) : history[k].notes = "Imported from Booking.com"

----------------------------------------------------------------------------
(* The critical sweep *)

\* scheduled times relative to the creation: 10 minutes past, now, 2h59m, 3h and
\* 3h01m ahead
SweepOffsets == {0 - 10, 0, 3 * HOUR - 1, 3 * HOUR, 3 * HOUR + 1}

NextSweep ==
    \/ \E off \in SweepOffsets, drv \in {NULL, "d1"} :
          CreateRide("adm", NULL, "manual", now + off, 10000, 520, 6000, drv)
    \/ \E d \in {1} : Tick(d)
    \/ Len(notifications) < MaxNotifications /\ CheckCriticalRides
    \/ \E r \in 1..MaxRides :
          Len(notifications) < MaxNotifications /\ AssignRide(r, "d1", "adm")
    \/ \E r \in 1..MaxRides : Len(notifications) < MaxNotifications /\ AcceptRide(r, "d1")
    \/ \E r \in 1..MaxRides : StartRide(r, "d1")
    \/ \E r \in 1..MaxRides : Len(notifications) < MaxNotifications /\ CancelRide(r, "adm")

SpecSweep == Init /\ [][NextSweep]_vars

\* C7: a sweep at time now turns into critical, with critical_at = now, exactly the
\* rides in to_assign with now < scheduled_at <= now + 3h, and leaves every other
\* ride as it was.
C7_SweepWindow ==
    [][ CheckCriticalRides =>
           /\ Len(rides') = Len(rides)
           /\ \A i \in RideIds :
                 IF /\ rides[i].status = "to_assign"
                    /\ now < rides[i].scheduled_at
                    /\ rides[i].scheduled_at <= now + 3 * HOUR
                 THEN rides'[i] = [rides[i] EXCEPT !.status = "critical",
                                                   !.critical_at = now]
                 ELSE rides'[i] = rides[i] ]_vars

\* C7 witness: one sweep has escalated a ride scheduled exactly 3h ahead and left in
\* to_assign a ride whose scheduled time has passed
C7_Witness ==
    /\ resp = Response("sweep", 200, 0, 1)
    /\ \E i \in RideIds, j \in RideIds :
          /\ rides[i].status = "critical"
          /\ rides[i].critical_at = now
          /\ rides[i].scheduled_at = now + 3 * HOUR
          /\ rides[j].status = "to_assign"
          /\ rides[j].scheduled_at < now

----------------------------------------------------------------------------
(* The supplier API: search, book, cancel *)

\* pickup times relative to the request: 23h, 24h and 25h ahead
PickupOffsets == {23 * HOUR, 24 * HOUR, 25 * HOUR}

\* distances of a search, tenths of a km: 5 km and 50 km
SearchDistances == {50, 500}

\* pickup times of a search relative to the request
SearchOffsets == {24 * HOUR, 25 * HOUR}

NextEtg ==
    \/ \E authOk \in BOOLEAN, d \in SearchDistances, c \in {0, 1}, off \in SearchOffsets :
          SearchOffers(authOk, 1, d, c, now + off)
    \/ \E authOk \in BOOLEAN, o \in OfferIds : BookTransfer(authOk, o)
    \/ \E authOk \in BOOLEAN, o \in OrderIds : CancelOrder(authOk, o)
    \/ \E off \in PickupOffsets :
          CreateRide("adm", "B1", "manual", now + off, 10000, 520, 6000, "d1")
    \/ \E d \in {1} : Tick(d)

SpecEtg == Init /\ [][NextEtg]_vars

\* C8: a cancel of an order whose one ride is neither completed nor cancelled
\* answers 200 with a penalty of the ride's price when scheduled_at - now is under
\* 24 hours and of 0 otherwise, exactly 24 hours included.
C8_CancelPenalty ==
    [][ \A o \in OrderIds :
           (/\ CancelOrder(TRUE, o)
            /\ \E r \in RideIds : /\ RidesByOrderId(o) = {r}
                                  /\ rides[r].status \notin {"completed", "cancelled"})
               => LET r == CHOOSE r \in RideIds : RidesByOrderId(o) = {r}
                  IN  /\ resp'.code = 200
                      /\ resp'.val = IF rides[r].scheduled_at - now < 24 * HOUR
                                     THEN rides[r].price
                                     ELSE 0
                      /\ rides[r].scheduled_at - now = 24 * HOUR => resp'.val = 0
                      /\ rides[r].scheduled_at - now = 23 * HOUR
                            => resp'.val = rides[r].price
                      /\ rides[r].scheduled_at - now = 25 * HOUR => resp'.val = 0 ]_vars

\* C8 witness: a ride priced 100 and scheduled 23h ahead has been cancelled with
\* penalty 100
C8_Witness ==
    /\ resp.op = "etg_cancel" /\ resp.code = 200 /\ resp.val = 10000
    /\ rides[resp.ride].price = 10000
    /\ rides[resp.ride].scheduled_at - now = 23 * HOUR

\* the offers the latest search has cached
LatestOffers(cache) == cache[Len(cache)].offers

\* C9 as written: no standard offer is priced below 19.5
C9_StandardNeverBelow1950 ==
    \A k \in 1..Len(offer_cache) :
        "standard" \in DOMAIN offer_cache[k].offers
            => offer_cache[k].offers["standard"].price >= 1950

\* C9: an offer's price is max(rate[category] x distance, minimum fare[category])
\* plus 5 per child seat; for standard the rate is 1.30/km and the minimum fare is
\* 15, so 50 km without child seats costs 65 and 5 km costs 15 plus the seats.
C9_OfferPrice ==
    [][ \A d \in SearchDistances, c \in {0, 1}, off \in SearchOffsets :
           SearchOffers(TRUE, 1, d, c, now + off)
               => \A cat \in DOMAIN LatestOffers(offer_cache') :
                     LET price == LatestOffers(offer_cache')[cat].price
                         base  == (CATEGORY_PRICING(cat) * d) \div 10
                     IN  /\ price = Max(base, MIN_FARE(cat)) + 500 * c
                         /\ cat = "standard"
                               => /\ CATEGORY_PRICING(cat) = 130
                                  /\ price >= 1500 + 500 * c
                                  /\ d = 500 => price = 6500 + 500 * c
                                  /\ d = 50 => price = 1500 + 500 * c ]_vars

\* C9 witness: a 5 km search has cached a standard offer at the minimum fare of 15
C9_Witness ==
    /\ resp.op = "etg_search" /\ resp.code = 200
    /\ offer_cache # << >>
    /\ "standard" \in DOMAIN LatestOffers(offer_cache)
    /\ LatestOffers(offer_cache)["standard"].distance = 50
    /\ LatestOffers(offer_cache)["standard"].price = 1500

\* C10: a book with an offer id that no cached search holds answers 400, creates no
\* ride and leaves the cache as it was.
C10_UnknownOfferRefused ==
    [][ \A o \in OfferIds :
           (/\ BookTransfer(TRUE, o)
            /\ ~ \E k \in 1..Len(offer_cache) :
                    /\ o = _generate_offer_id(offer_cache[k].sid, o.cat)
                    /\ o.cat \in DOMAIN offer_cache[k].offers)
               => /\ resp'.code = 400
                  /\ UNCHANGED <<rides, offer_cache, history, notifications, next_order>> ]_vars

\* C10 witness: the first search has been evicted and a book has been refused
C10_Witness ==
    /\ resp = Response("etg_book", 400, 0, 0)
    /\ Len(offer_cache) = MaxCachedSearches
    /\ offer_cache[1].sid > 1
    /\ rides = << >>

\* the rides a book of offer id o has created
BookedFrom(o) ==
    {i \in RideIds : rides[i].source_platform = "etg" /\ rides[i].booking_raw_payload = o}

\* C11: at most one ride is ever created from an offer id: once a book of offer id
\* X has succeeded, no later book of X creates a ride.
C11_OfferRedeemedOnce ==
    \A o \in OfferIds : Cardinality(BookedFrom(o)) <= 1

----------------------------------------------------------------------------
(* The rides API: create, update, assign, the driver's operations, cancel, list *)

\* the patches of an update: with and without a status, a new time, a new driver
Patches ==
    {[status |-> NULL, scheduled_at |-> NoTime, driver_id |-> NULL],
     [status |-> "completed", scheduled_at |-> NoTime, driver_id |-> NULL],
     [status |-> "cancelled", scheduled_at |-> HOUR, driver_id |-> NULL],
     [status |-> NULL, scheduled_at |-> NoTime, driver_id |-> "d2"]}

NextEngine ==
    \/ \E drv \in {NULL, "d1"} :
          CreateRide("adm", NULL, "manual", now + 2 * HOUR, 10000, 520, 6000, drv)
    \/ \E u \in {"adm", "d1"}, r \in 1..MaxRides, patch \in Patches : UpdateRide(u, r, patch)
    \/ \E r \in 1..MaxRides, d \in Assignees :
          Len(notifications) < MaxNotifications /\ AssignRide(r, d, "adm")
    \/ \E r \in 1..MaxRides, u \in Users :
          Len(notifications) < MaxNotifications /\ AcceptRide(r, u)
    \/ \E r \in 1..MaxRides, u \in Users : StartRide(r, u)
    \/ \E r \in 1..MaxRides, u \in Users : CompleteRide(r, u)
    \/ \E r \in 1..MaxRides, u \in Users :
          Len(notifications) < MaxNotifications /\ CancelRide(r, u)
    \/ Len(notifications) < MaxNotifications /\ CheckCriticalRides

SpecEngine == Init /\ [][NextEngine]_vars

\* the rides as drivers and admins list them while they are created, rescheduled,
\* assigned, accepted and cancelled
NextList ==
    \/ \E drv \in {NULL, "d1"} :
          CreateRide("adm", NULL, "manual", now + 2 * HOUR, 10000, 520, 6000, drv)
    \/ \E u \in {"adm", "d1"}, r \in 1..MaxRides, patch \in Patches : UpdateRide(u, r, patch)
    \/ \E r \in 1..MaxRides, d \in DriverUsers :
          Len(notifications) < MaxNotifications /\ AssignRide(r, d, "adm")
    \/ \E r \in 1..MaxRides, u \in DriverUsers :
          Len(notifications) < MaxNotifications /\ AcceptRide(r, u)
    \/ \E r \in 1..MaxRides :
          Len(notifications) < MaxNotifications /\ CancelRide(r, "adm")
    \/ \E u \in Users, status \in {NULL, "to_assign"}, driver_id \in {NULL, "d2"},
          page \in {1, 2}, page_size \in {1, 20} :
          ListRides(u, status, NoTime, NoTime, driver_id, NULL, page, page_size)

SpecList == Init /\ [][NextList]_vars

\* the rides a list response holds
Listed(rsp) == {rsp.rows[k] : k \in 1..Len(rsp.rows)}

\* C12: a list a driver requests without further filters and on one page holds every
\* ride that has the driver as driver_id or is in to_assign or critical, and holds
\* no ride whose driver_id is another driver.
C12_DriverListScope ==
    [][ \A u \in DriverUsers, driver_id \in {NULL, "d2"} :
           ListRides(u, NULL, NoTime, NoTime, driver_id, NULL, 1, 20)
               => /\ \A i \in RideIds :
                        (rides[i].driver_id = u \/ rides[i].status \in {"to_assign", "critical"})
                            => i \in Listed(resp')
                  /\ \A i \in Listed(resp') : rides[i].driver_id \in {NULL, u} ]_vars

\* the history rows of ride i, oldest first
RowsOf(i) == SelectSeq(history, LAMBDA h : h.ride_id = i)

\* C13: every ride has a history that starts with a creation row (old_status null)
\* and whose latest row names the ride's current status, whichever entry point
\* created the ride and whatever has changed its status.
C13_HistoryTracksStatus ==
    \A i \in RideIds :
        /\ RowsOf(i) # << >>
        /\ RowsOf(i)[1].old_status = NULL
        /\ RowsOf(i)[Len(RowsOf(i))].new_status = rides[i].status

\* C14: a cancelled ride has no driver_id.
C14_CancelledHasNoDriver ==
    \A i \in RideIds : rides[i].status = "cancelled" => rides[i].driver_id = NULL

\* C15: a cancel request by a driver on a ride whose driver_id is not that driver
\* is answered 403 and changes neither the rides, the history nor the notifications.
C15_DriverCancelsOwnRideOnly ==
    [][ \A r \in RideIds, u \in DriverUsers :
           (CancelRide(r, u) /\ rides[r].driver_id # u)
               => /\ resp'.code = 403
                  /\ UNCHANGED <<rides, history, notifications>> ]_vars

\* the notifications of a cancellation of ride i addressed to user d
CancelNotices(ns, i, d) ==
    {k \in 1..Len(ns) : ns[k] = _create_notification(d, "ride_cancelled", i)}

\* C20: a step that takes a ride to cancelled adds one cancellation notification
\* for the ride's driver when it has one, and none when it has no driver.
C20_CancelNotifiesDriver ==
    [][ \A i \in RideIds :
           (rides[i].status # "cancelled" /\ rides'[i].status = "cancelled")
               => IF rides[i].driver_id # NULL
                  THEN Cardinality(CancelNotices(notifications', i, rides[i].driver_id))
                         = Cardinality(CancelNotices(notifications, i, rides[i].driver_id)) + 1
                  ELSE notifications' = notifications ]_vars

\* C16: accept, start and complete answer 403 whenever the caller is not the
\* ride's driver_id, whatever the ride's status and also when it has no driver, and
\* change nothing then; so a step of one of them that changes a ride's status is
\* made by the ride's driver.
C16_OnlyAssignedDriver ==
    [][ \A r \in RideIds, u \in Users, op \in OnlyDrivers :
           LifecycleRequest(op, r, u)
               => /\ rides[r].driver_id # u
                        => /\ resp'.code = 403
                           /\ UNCHANGED <<rides, history, notifications, drivers>>
                  /\ rides'[r].status # rides[r].status
                        => /\ rides[r].driver_id = u
                           /\ rides'[r].status = TargetOf(op) ]_vars

\* C16 witness: a complete by another driver on a completed ride has been answered
\* 403, not 400
C16_Witness ==
    /\ resp.op = "complete" /\ resp.code = 403 /\ resp.ride \in RideIds
    /\ rides[resp.ride].status = "completed"
    /\ rides[resp.ride].driver_id = "d1"

\* the operations of the lifecycle
LifecycleOps == {"assign", "accept", "start", "complete", "cancel", "update"}

\* C17: a lifecycle operation answered not-found, forbidden or invalid-state leaves
\* the rides, the history, the notifications and the drivers' totals as they were.
C17_FailureWritesNothing ==
    [][ (resp'.op \in LifecycleOps /\ resp'.code \in {400, 403, 404})
           => UNCHANGED <<rides, history, notifications, drivers>> ]_vars

\* C17 witness: a start of a ride that is not booked has been answered 400
C17_Witness ==
    /\ resp.op = "start" /\ resp.code = 400 /\ resp.ride \in RideIds
    /\ rides[resp.ride].status = "to_assign"
    /\ rides[resp.ride].started_at = NoTime

\* C18: an update leaves every ride's status, the history and the notifications as
\* they were; on the ride it names it sets the scheduled_at and the driver_id the
\* patch gives and nothing else, whatever status the patch carries.
C18_UpdateKeepsStatus ==
    [][ \A u \in {"adm", "d1"}, r \in 1..MaxRides, patch \in Patches :
           UpdateRide(u, r, patch)
               => /\ UNCHANGED <<history, notifications, drivers>>
                  /\ Len(rides') = Len(rides)
                  /\ \A i \in RideIds :
                        /\ rides'[i].status = rides[i].status
                        /\ (i # r \/ resp'.code # 200) => rides'[i] = rides[i]
                        /\ (i = r /\ resp'.code = 200)
                              => rides'[i] =
                                   [rides[i] EXCEPT
                                      !.scheduled_at = IF patch.scheduled_at = NoTime
                                                       THEN @ ELSE patch.scheduled_at,
                                      !.driver_id = IF patch.driver_id = NULL
                                                    THEN @ ELSE patch.driver_id] ]_vars

\* C18 witness: the patch that carries status cancelled and a new time has been
\* applied to a ride that is still in to_assign
C18_Witness ==
    /\ resp.op = "update" /\ resp.code = 200
    /\ rides[resp.ride].scheduled_at = HOUR
    /\ rides[resp.ride].status = "to_assign"

\* C19: an assign on a ride in to_assign or critical for a user with the driver
\* role answers 200, sets driver_id and assigned_by, keeps the status, writes no
\* history row and appends one notification for that driver; on a ride in another
\* status it answers 400, for a user that is no driver or does not exist 404, and
\* then changes nothing.
C19_AssignKeepsStatus ==
    [][ \A r \in 1..MaxRides, d \in Assignees :
           AssignRide(r, d, "adm")
               => /\ history' = history
                  /\ IF r \notin RideIds
                     THEN resp'.code = 404 /\ UNCHANGED <<rides, notifications>>
                     ELSE IF rides[r].status \notin {"to_assign", "critical"}
                     THEN resp'.code = 400 /\ UNCHANGED <<rides, notifications>>
                     ELSE IF d \notin {"d1", "d2"}
                     THEN resp'.code = 404 /\ UNCHANGED <<rides, notifications>>
                     ELSE /\ resp'.code = 200
                          /\ rides'[r].driver_id = d
                          /\ rides'[r].assigned_by = "adm"
                          /\ rides'[r].status = rides[r].status
                          /\ \A i \in RideIds \ {r} : rides'[i] = rides[i]
                          /\ notifications' =
                               Append(notifications,
                                      [user_id |-> d, type |-> "ride_assigned",
                                       ride_id |-> r]) ]_vars

\* C19 witness: a critical ride has been assigned and is still critical
C19_Witness ==
    /\ resp.op = "assign" /\ resp.code = 200
    /\ rides[resp.ride].status = "critical"
    /\ rides[resp.ride].driver_id = "d1"
    /\ rides[resp.ride].assigned_by = "adm"
    /\ notifications[Len(notifications)] =
         [user_id |-> "d1", type |-> "ride_assigned", ride_id |-> resp.ride]

----------------------------------------------------------------------------
(* The supplier API on rides that go through the lifecycle *)

\* orders booked from one search, then assigned, accepted, driven, escalated and
\* cancelled, with the status and cancel requests of the marketplace
NextOrder ==
    \/ SearchOffers(TRUE, 1, 500, 0, now + 2 * HOUR)
    \/ \E o \in OfferIds : BookTransfer(TRUE, o)
    \/ \E r \in 1..MaxRides :
          Len(notifications) < MaxNotifications /\ AssignRide(r, "d1", "adm")
    \/ \E r \in 1..MaxRides : Len(notifications) < MaxNotifications /\ AcceptRide(r, "d1")
    \/ \E r \in 1..MaxRides : StartRide(r, "d1")
    \/ \E r \in 1..MaxRides : CompleteRide(r, "d1")
    \/ \E r \in 1..MaxRides : Len(notifications) < MaxNotifications /\ CancelRide(r, "adm")
    \/ Len(notifications) < MaxNotifications /\ CheckCriticalRides
    \/ \E authOk \in BOOLEAN, o \in OrderIds : GetOrderStatus(authOk, o)
    \/ \E authOk \in BOOLEAN, o \in OrderIds : CancelOrder(authOk, o)

SpecOrder == Init /\ [][NextOrder]_vars

\* C21: for an order id that names one ride, status answers completed exactly when
\* the ride is completed, cancelled exactly when it is cancelled and active in
\* to_assign, critical, booked and in_progress, and changes nothing; cancel answers
\* 200 and leaves the ride cancelled exactly when the ride is in one of the four
\* active statuses, and answers 400 and leaves the rides as they were when the ride
\* is completed or cancelled.
C21_StatusAndCancelAgree ==
    [][ \A o \in OrderIds : \A r \in RideIds :
           RidesByOrderId(o) = {r}
               => /\ GetOrderStatus(TRUE, o)
                        => /\ resp'.code = 200
                           /\ rides' = rides
                           /\ (resp'.text = "completed") = (rides[r].status = "completed")
                           /\ (resp'.text = "cancelled") = (rides[r].status = "cancelled")
                           /\ (resp'.text = "active")
                                 = (rides[r].status \in {"to_assign", "critical", "booked",
                                                         "in_progress"})
                  /\ CancelOrder(TRUE, o)
                        => IF rides[r].status \in {"to_assign", "critical", "booked",
                                                   "in_progress"}
                           THEN /\ resp'.code = 200
                                /\ rides'[r].status = "cancelled"
                                /\ \A i \in RideIds \ {r} : rides'[i] = rides[i]
                           ELSE /\ resp'.code = 400
                                /\ rides' = rides ]_vars

\* C21 witness: an order cancelled by the marketplace has been cancelled a second
\* time and refused
C21_Witness ==
    /\ resp.op = "etg_cancel" /\ resp.code = 400 /\ resp.ride \in RideIds
    /\ rides[resp.ride].source_platform = "etg"
    /\ rides[resp.ride].status = "cancelled"
    /\ rides[resp.ride].driver_id = NULL

----------------------------------------------------------------------------
(* The Booking.com webhooks and their shared secret *)

\* the Authorization headers a webhook request carries: none, the configured secret
\* as a bearer token, another bearer token, the secret without the scheme
WebhookHeaders == {NULL, "Bearer s3cret", "Bearer other", "s3cret"}

NextWebhook ==
    \/ \E secret \in {"", "s3cret"} : UpdateConfig(Unset, secret, Unset)
    \/ \E a \in WebhookHeaders, d \in {0, 500}, p \in {1, 5, 7} : BookingSearch(a, d, p)
    \/ \E ref \in BookingReferences, a \in WebhookHeaders : BookingNew(ref, a)
    \/ \E ref \in BookingReferences, action \in {"CANCELLATION", "AMENDMENT"},
          pickup \in {NoTime, HOUR}, a \in WebhookHeaders :
          Len(history) < MaxHistory /\ BookingUpdate(ref, action, pickup, a)
    \/ \E ref \in BookingReferences, a \in WebhookHeaders :
          Len(history) < MaxHistory /\ BookingIncident(ref, a)

SpecWebhook == Init /\ [][NextWebhook]_vars

\* the request is one of the four webhooks carrying Authorization header a
WebhookRequest(a) ==
    \/ \E d \in {0, 500}, p \in {1, 5, 7} : BookingSearch(a, d, p)
    \/ \E ref \in BookingReferences : BookingNew(ref, a)
    \/ \E ref \in BookingReferences, action \in {"CANCELLATION", "AMENDMENT"},
          pickup \in {NoTime, HOUR} : BookingUpdate(ref, action, pickup, a)
    \/ \E ref \in BookingReferences : BookingIncident(ref, a)

\* C22: while a webhook secret is configured, a quote, new-booking, amend/cancel or
\* incident webhook whose Authorization header is absent or is not "Bearer " followed
\* by the secret answers 401 and leaves rides, history and notifications as they
\* were, and one that carries it is not answered 401; while no secret is configured
\* no webhook is answered 401.
C22_WebhookSecret ==
    [][ \A a \in WebhookHeaders :
           WebhookRequest(a)
               => IF config.webhook_secret # ""
                     /\ (a = NULL \/ a # "Bearer " \o config.webhook_secret)
                  THEN /\ resp'.code = 401
                       /\ UNCHANGED <<rides, history, notifications, config>>
                  ELSE resp'.code \in {200, 204} ]_vars

\* C22 witness: with the secret configured and a ride on file, a cancellation that
\* carries the secret without the Bearer scheme has been refused and the ride is
\* still to_assign
C22_Witness ==
    /\ resp.op = "booking_update" /\ resp.code = 401
    /\ config.webhook_secret = "s3cret"
    /\ \E i \in RideIds : rides[i].booking_reference = "B1" /\ rides[i].status = "to_assign"
    /\ Len(history) = Len(rides)

----------------------------------------------------------------------------
(* The OAuth token cache *)

\* lifetimes of an issued token, minutes
ExpiresIn == {1, 2, 3}

NextToken ==
    \/ \E c \in {Unset, "c1", "c2"}, e \in {Unset, "true"} : UpdateConfig(c, Unset, e)
    \/ \E tokenOk \in BOOLEAN, e \in ExpiresIn : TestConnection(tokenOk, e)
    \/ \E l \in RemoteLists, tokenOk \in BOOLEAN, fetchOk \in BOOLEAN, e \in ExpiresIn :
          PollNewBookings(l, tokenOk, fetchOk, e)
    \/ \E d \in {1} : Tick(d)

SpecToken == Init /\ [][NextToken]_vars

\* a call that needs a token: a connection test with credentials on file, or a poll
\* with the integration enabled
TokenCall(tokenOk, e) ==
    \/ config.client_id # "" /\ TestConnection(tokenOk, e)
    \/ /\ config.is_enabled
       /\ \E l \in RemoteLists, fetchOk \in BOOLEAN : PollNewBookings(l, tokenOk, fetchOk, e)

\* C23: a call that needs a token sends no token request and leaves the cached token
\* and its expiry in place while a token is cached whose expiry is more than 60 s
\* after now; otherwise it sends exactly one token request and, when that succeeds,
\* stores a token with expiry now + expires_in in the config row and uses it; when
\* the token request fails the call fails and the config row, the rides and the
\* history are as they were.
C23_TokenReuse ==
    [][ \A tokenOk \in BOOLEAN, e \in ExpiresIn :
           TokenCall(tokenOk, e)
               => IF /\ config.access_token # NULL
                     /\ config.token_expires_at # NoTime
                     /\ config.token_expires_at > now + 1
                  THEN /\ resp'.calls = 0
                       /\ config'.access_token = config.access_token
                       /\ config'.token_expires_at = config.token_expires_at
                       /\ resp'.op = "test" => resp'.text = config.access_token
                  ELSE /\ resp'.calls = 1
                       /\ IF tokenOk
                          THEN /\ config'.access_token # NULL
                               /\ config'.token_expires_at = now + e
                               /\ resp'.op = "test"
                                     => resp'.val = 1 /\ resp'.text = config'.access_token
                          ELSE /\ resp'.val = 0 - 1
                               /\ UNCHANGED <<config, rides, history>> ]_vars

\* C23 witness: at minute 1 a connection test has sent one token request and
\* stored the token it was issued, with an expiry 3 minutes ahead
C23_Witness ==
    /\ resp.op = "test" /\ resp.val = 1 /\ resp.calls = 1
    /\ now = 1
    /\ resp.text = "token:c1@1"
    /\ config.access_token = "token:c1@1"
    /\ config.token_expires_at = now + 3

----------------------------------------------------------------------------
(* The failures of the marketplace adapters *)

\* the operations of the two marketplace adapters
AdapterOps ==
    {"etg_search", "etg_book", "etg_status", "etg_cancel",
     "booking_search", "booking_new", "booking_update", "booking_incident"}

\* C24: no request to a marketplace adapter is answered with an internal error
\* (500), whatever rides the store holds.
C24_NoInternalError ==
    resp.op \in AdapterOps => resp.code # 500

----------------------------------------------------------------------------
(* The sweep running concurrently with requests.  The task opens a session of its  *)
(* own; check_critical_rides reads the rides with a plain SELECT (no FOR UPDATE)    *)
(* and _run_check commits after the loop: between the read and the commit other     *)
(* requests may commit.  The flush is one UPDATE ... WHERE id = :id for each ride   *)
(* selected, of the columns the loop assigned, plus the INSERTs.                    *)

\* ride_service.py check_critical_rides, the query: the rides selected are read
BeginSweep ==
    /\ \A t \in inflight : t.op # "sweep"
    /\ inflight' = inflight \cup
          {[slot |-> 0, op |-> "sweep", ride |-> 0, caller |-> NULL,
            seen |-> IdSeq({i \in RideIds : SweepSelects(rides[i], now)})]}
    /\ UNCHANGED <<rides, history, notifications, drivers, config, offer_cache,
                   next_search, next_order, now, resp>>

\* ride_service.py check_critical_rides, the loop and the flush, and _run_check's
\* commit: the rows selected are written whatever has been committed since
FinishSweep(t) ==
    /\ t \in inflight
    /\ t.op = "sweep"
    /\ rides' = [i \in RideIds |->
                   IF \E k \in 1..Len(t.seen) : t.seen[k] = i
                   THEN [rides[i] EXCEPT !.status = "critical", !.critical_at = now]
                   ELSE rides[i]]
    /\ history' = history \o
            [k \in 1..Len(t.seen) |->
                _create_history(t.seen[k], "to_assign", "critical", NULL,
                                "Auto-marked as critical: < 3h to scheduled time")]
    /\ notifications' = notifications \o
            Flatten([k \in 1..Len(t.seen) |-> AdminNotifications("ride_critical", t.seen[k])])
    /\ resp' = Response("sweep", 200, 0, Len(t.seen))
    /\ inflight' = inflight \ {t}
    /\ UNCHANGED <<drivers, config, offer_cache, next_search, next_order, now>>

\* rides two hours ahead with a driver assigned, the sweep, and the accept and
\* cancel requests that commit while a sweep is under way
NextSweepConc ==
    \/ CreateRide("adm", NULL, "manual", now + 2 * HOUR, 10000, 520, 6000, "d1")
    \/ BeginSweep
    \/ \E t \in inflight : Len(notifications) < MaxNotifications /\ FinishSweep(t)
    \/ \E r \in 1..MaxRides : Len(notifications) < MaxNotifications /\ AcceptRide(r, "d1")
    \/ \E r \in 1..MaxRides, u \in {"adm", "d1"} :
          Len(notifications) < MaxNotifications /\ CancelRide(r, u)

SpecSweepConc == Init /\ [][NextSweepConc]_vars

\* C25: with the sweep running concurrently with accept and cancel requests, every
\* committed change of a ride's status follows an edge of VALID_TRANSITIONS: no
\* step takes a booked or cancelled ride to critical.
C25_SweepRespectsCommitted ==
    [][ \A i \in RideIds :
           rides'[i].status # rides[i].status
               => /\ rides'[i].status \in VALID_TRANSITIONS(rides[i].status)
                  /\ rides[i].status \in {"booked", "cancelled"}
                        => rides'[i].status # "critical" ]_vars

----------------------------------------------------------------------------
(* Sweep runs one after another, among the other operations *)

\* rides created by an admin and by the Booking.com webhook, amended, reported in
\* incidents, assigned, accepted and cancelled while the clock advances and the
\* sweep runs
NextEscalate ==
    \/ CreateRide("adm", NULL, "manual", now + 2 * HOUR, 10000, 520, 6000, NULL)
    \/ \E ref \in BookingReferences : BookingNew(ref, NULL)
    \/ \E ref \in BookingReferences :
          Len(history) < MaxHistory /\ BookingUpdate(ref, "AMENDMENT", 2 * HOUR, NULL)
    \/ \E ref \in BookingReferences :
          Len(history) < MaxHistory /\ BookingIncident(ref, NULL)
    \/ \E r \in 1..MaxRides :
          Len(notifications) < MaxNotifications /\ AssignRide(r, "d1", "adm")
    \/ \E r \in 1..MaxRides : Len(notifications) < MaxNotifications /\ AcceptRide(r, "d1")
    \/ \E r \in 1..MaxRides : Len(notifications) < MaxNotifications /\ CancelRide(r, "adm")
    \/ \E d \in {1} : Tick(d)
    \/ Len(notifications) < MaxNotifications /\ CheckCriticalRides

SpecEscalate == Init /\ [][NextEscalate]_vars

\* C26 as written: no ride has two history rows with new_status critical
C26_OneCriticalRow ==
    \A r \in RideIds : Cardinality(RowsTo(r, "critical")) <= 1

\* C26: no ride has two history rows that record a change into critical (rows with
\* new_status critical and another old_status); a critical_at once stamped is never
\* stamped again; a sweep leaves no ride that a sweep at the same time would select.
C26_EscalatedOnce ==
    /\ [](\A r \in RideIds : Cardinality(RowsInto(r, "critical")) <= 1)
    /\ [][ /\ \A i \in RideIds :
                 rides[i].critical_at # NoTime => rides'[i].critical_at = rides[i].critical_at
           /\ (resp' # resp /\ resp'.op = "sweep")
                 => \A i \in RideIds :
                       ~ (/\ rides'[i].status = "to_assign"
                          /\ now < rides'[i].scheduled_at
                          /\ rides'[i].scheduled_at <= now + 3 * HOUR) ]_vars

\* C26 witness: a later sweep has found nothing to escalate while a ride escalated
\* by an earlier sweep is still critical and has been amended since
C26_Witness ==
    /\ resp = Response("sweep", 200, 0, 0)
    /\ \E i \in RideIds :
          /\ rides[i].status = "critical"
          /\ rides[i].critical_at < now
          /\ Cardinality(RowsInto(i, "critical")) = 1
          /\ Cardinality(RowsTo(i, "critical")) = 2

----------------------------------------------------------------------------
(* The sweep on its schedule *)

\* how long after now + 3h a new ride is scheduled, minutes
BeatOffsets == {1, BEAT_SCHEDULE}

\* rides created more than three hours ahead, assigned, accepted and cancelled,
\* while the task runs every five minutes
NextBeat ==
    \/ \E off \in BeatOffsets :
          /\ now + 3 * HOUR + off <= BEAT_SCHEDULE * MaxBeats
          /\ CreateRide("adm", NULL, "manual", now + 3 * HOUR + off, 10000, 520, 6000, NULL)
    \/ \E r \in 1..MaxRides :
          Len(notifications) < MaxNotifications /\ AssignRide(r, "d1", "adm")
    \/ \E r \in 1..MaxRides : Len(notifications) < MaxNotifications /\ AcceptRide(r, "d1")
    \/ \E r \in 1..MaxRides : Len(notifications) < MaxNotifications /\ CancelRide(r, "adm")
    \/ check_critical_rides_task

\* every run that is due eventually happens
SpecBeat == Init /\ [][NextBeat]_vars /\ WF_vars(check_critical_rides_task)

\* C27: with the task run every five minutes, a ride in to_assign whose scheduled_at
\* is more than three hours ahead eventually leaves to_assign, and a ride made
\* critical was made so before its scheduled_at and within three hours of it.
C27_EscalatedInTime ==
    /\ \A i \in 1..MaxRides :
          (/\ i \in RideIds
           /\ rides[i].status = "to_assign"
           /\ rides[i].scheduled_at > now + 3 * HOUR)
              ~> (i \in RideIds /\ rides[i].status # "to_assign")
    /\ [](\A i \in RideIds :
              rides[i].status = "critical"
                  => /\ rides[i].critical_at < rides[i].scheduled_at
                     /\ rides[i].scheduled_at <= rides[i].critical_at + 3 * HOUR)

\* C27 witness: a ride created at time 0 for 3h05 later and left alone has become
\* critical at 0h05, the first run at which the three hours had begun
C27_Witness ==
    \E i \in RideIds :
        /\ rides[i].status = "critical"
        /\ rides[i].driver_id = NULL
        /\ rides[i].scheduled_at = 3 * HOUR + BEAT_SCHEDULE
        /\ rides[i].critical_at = BEAT_SCHEDULE

----------------------------------------------------------------------------
(* Sweep runs that fail *)

\* rides inside and just outside the window, assigned and cancelled, with runs
\* that succeed and runs that fail at one of the rides selected
NextSweepFail ==
    \/ \E off \in {2 * HOUR, 3 * HOUR + 1} :
          CreateRide("adm", NULL, "manual", now + off, 10000, 520, 6000, NULL)
    \/ \E r \in 1..MaxRides :
          Len(notifications) < MaxNotifications /\ AssignRide(r, "d1", "adm")
    \/ \E r \in 1..MaxRides : Len(notifications) < MaxNotifications /\ CancelRide(r, "adm")
    \/ \E d \in {1} : Tick(d)
    \/ Len(notifications) < MaxNotifications /\ CheckCriticalRides
    \/ \E k \in 1..MaxRides : RunCheckFails(k)

SpecSweepFail == Init /\ [][NextSweepFail]_vars

\* the rides a sweep at time t selects from a rides table
Selected(rs, t) ==
    {i \in 1..Len(rs) : /\ rs[i].status = "to_assign"
                         /\ t < rs[i].scheduled_at
                         /\ rs[i].scheduled_at <= t + 3 * HOUR}

\* C28: when the escalation of one ride fails in a run, the other rides the run
\* selected are critical after it.
C28_OthersStillEscalated ==
    [][ (resp' # resp /\ resp'.op = "sweep" /\ resp'.code = 500)
           => \A i \in Selected(rides, now) \ {resp'.ride} : rides'[i].status = "critical" ]_vars

\* C29: a run that fails leaves the rides, the history and the notifications as
\* they were, so the rides it selected are still in to_assign and a run at the same
\* time selects them again; a run that succeeds escalates every ride it selected,
\* with one history row for each.
C29_SweepAllOrNothing ==
    [][ (resp' # resp /\ resp'.op = "sweep")
           => IF resp'.code = 500
              THEN /\ UNCHANGED <<rides, history, notifications>>
                   /\ Selected(rides', now) = Selected(rides, now)
                   /\ \A i \in Selected(rides, now) : rides'[i].status = "to_assign"
              ELSE /\ \A i \in Selected(rides, now) : rides'[i].status = "critical"
                   /\ Len(history') = Len(history) + Cardinality(Selected(rides, now)) ]_vars

\* C29 witness: a run that selected two rides has failed at the second and both
\* are still in to_assign with their creation rows only
C29_Witness ==
    /\ resp = Response("sweep", 500, 2, 0)
    /\ Selected(rides, now) = {1, 2}
    /\ Len(history) = 2
    /\ notifications = << >>

----------------------------------------------------------------------------
(* The offer cache *)

\* searches and the bookings made from them
NextCache ==
    \/ \E authOk \in BOOLEAN, d \in SearchDistances :
          SearchOffers(authOk, 1, d, 0, now + 25 * HOUR)
    \/ \E authOk \in BOOLEAN, o \in OfferIds : BookTransfer(authOk, o)
    \/ \E o \in OrderIds : CancelOrder(TRUE, o)

SpecCache == Init /\ [][NextCache]_vars

----------------------------------------------------------------------------
(* Quotes of the two marketplaces *)

\* distances of a Booking.com search, tenths of a km: absent, 5 km and 50 km
QuoteDistances == {0, 50, 500}

\* passenger counts of a Booking.com search
QuotePassengers == {1, 5, 7}

\* the supplier category of the same name as a Booking.com transport category
QuoteCategory(text) ==
    CASE text = "STANDARD" -> "standard"
      [] text = "MINIBUS"  -> "minibus"
      [] OTHER             -> NULL

NextQuote ==
    \/ \E a \in WebhookHeaders, d \in QuoteDistances, p \in QuotePassengers :
          BookingSearch(a, d, p)
    \/ \E authOk \in BOOLEAN, d \in SearchDistances, c \in {0, 1}, off \in SearchOffsets :
          SearchOffers(authOk, 1, d, c, now + off)

SpecQuote == Init /\ [][NextQuote]_vars

\* C31: a Booking.com quote for a given distance in a category the supplier API
\* quotes too is max(rate[category] x distance, minimum fare[category]) of the
\* supplier API's pricing table.
C31_SharedPricing ==
    [][ \A a \in WebhookHeaders, d \in QuoteDistances \ {0}, p \in QuotePassengers :
           (/\ BookingSearch(a, d, p)
            /\ resp'.code = 200
            /\ QuoteCategory(resp'.text) \in TransferCategory)
               => resp'.val = Max((CATEGORY_PRICING(QuoteCategory(resp'.text)) * d) \div 10,
                                  MIN_FARE(QuoteCategory(resp'.text))) ]_vars

----------------------------------------------------------------------------
(* The poll of new bookings *)

\* the state hashes a remote booking carries (NULL: none)
PollHashes == {NULL, "h1", "h2"}

PollBookings ==
    {[ref |-> f, hash |-> h, pickup |-> NoTime] : f \in IngestReferences, h \in PollHashes}

\* the remote lists of a poll: up to two NEW bookings, each reference once
PollLists ==
    {<< >>} \cup {<<b>> : b \in PollBookings}
            \cup {<<a, b>> : a \in {x \in PollBookings : x.ref = "B1"},
                             b \in {x \in PollBookings : x.ref = "B2"}}

NextPoll ==
    \/ \E s \in {Unset, "s3cret"}, e \in {"true", "false"} : UpdateConfig(Unset, s, e)
    \/ \E ref \in IngestReferences : BookingNew(ref, "Bearer s3cret")
    \/ \E l \in PollLists, tokenOk \in BOOLEAN, fetchOk \in BOOLEAN :
          PollNewBookings(l, tokenOk, fetchOk, 60)

SpecPoll == Init /\ [][NextPoll]_vars

\* the entries of a remote list whose reference no ride carries
UnknownIn(l, rs) == {k \in 1..Len(l) : WithReference(rs, l[k].ref) = {}}

\* the entries of a remote list whose reference a ride carries with another hash
\* than the one the entry has
ChangedIn(l, rs) ==
    {k \in 1..Len(l) : /\ l[k].hash # NULL
                       /\ \E i \in WithReference(rs, l[k].ref) :
                             rs[i].booking_state_hash # l[k].hash}

\* C32: an enabled poll that succeeds adds, for each entry of an unknown reference,
\* one ride in to_assign with one creation row and counts it as new; for an entry
\* of a known reference it only replaces the stored hash when the entry has a hash
\* and it differs, and counts it as updated; it changes nothing else of the rides
\* and the history.  After it the list has no unknown and no changed entry, and a
\* poll of a list without such entries answers (0, 0) and changes no ride.  A
\* disabled poll sends no request and changes nothing.
C32_PollCounts ==
    [][ \A l \in PollLists :
          /\ (PollNewBookings(l, TRUE, TRUE, 60) /\ config.is_enabled)
                => /\ resp'.code = 200
                   /\ resp'.ride = Cardinality(UnknownIn(l, rides))
                   /\ resp'.val = Cardinality(ChangedIn(l, rides))
                   /\ Len(rides') = Len(rides) + Cardinality(UnknownIn(l, rides))
                   /\ Len(history') = Len(history) + Cardinality(UnknownIn(l, rides))
                   /\ SubSeq(history', 1, Len(history)) = history
                   /\ \A k \in UnknownIn(l, rides) :
                         \E i \in (Len(rides) + 1)..Len(rides') :
                            /\ WithReference(rides', l[k].ref) = {i}
                            /\ rides'[i].status = "to_assign"
                            /\ rides'[i].driver_id = NULL
                            /\ rides'[i].booking_state_hash = l[k].hash
                            /\ Cardinality({h \in 1..Len(history') :
                                               history'[h].ride_id = i}) = 1
                            /\ \E h \in (Len(history) + 1)..Len(history') :
                                  /\ history'[h].ride_id = i
                                  /\ history'[h].old_status = NULL
                                  /\ history'[h].new_status = "to_assign"
                   /\ \A i \in RideIds :
                         rides'[i] =
                            IF \E k \in ChangedIn(l, rides) : i \in WithReference(rides, l[k].ref)
                            THEN [rides[i] EXCEPT !.booking_state_hash =
                                    l[CHOOSE k \in ChangedIn(l, rides) :
                                          i \in WithReference(rides, l[k].ref)].hash]
                            ELSE rides[i]
                   /\ UnknownIn(l, rides') = {}
                   /\ ChangedIn(l, rides') = {}
                   /\ (UnknownIn(l, rides) = {} /\ ChangedIn(l, rides) = {})
                         => /\ resp'.ride = 0 /\ resp'.val = 0
                            /\ UNCHANGED <<rides, history, notifications>>
          /\ \A tokenOk \in BOOLEAN, fetchOk \in BOOLEAN :
                (PollNewBookings(l, tokenOk, fetchOk, 60) /\ ~ config.is_enabled)
                   => /\ resp'.calls = 0
                      /\ resp'.ride = 0 /\ resp'.val = 0
                      /\ UNCHANGED <<rides, history, notifications, config>> ]_vars

\* C32 witness: a poll has imported one booking as a new ride and replaced the hash
\* of the ride of the other
C32_Witness ==
    /\ resp.op = "sync" /\ resp.code = 200 /\ resp.ride = 1 /\ resp.val = 1
    /\ config.is_enabled /\ config.last_sync_at = now
    /\ Len(rides) = 2
    /\ rides[1].booking_state_hash # NULL
    /\ history[Len(history)].ride_id = 2
    /\ history[Len(history)].notes = "Imported from Booking.com"

----------------------------------------------------------------------------
(* A poll that fails *)

\* the entries of a fetched list: two well-formed bookings and one that lacks its
\* required bookingReference
PollFailBookings ==
    {[ref |-> f, hash |-> "h1", pickup |-> NoTime] : f \in IngestReferences \cup {NULL}}

PollFailLists ==
    {<<b>> : b \in PollFailBookings}
        \cup {<<a, b>> : a \in PollFailBookings, b \in PollFailBookings}

NextPollFail ==
    \/ \E c \in {Unset, "c1"}, e \in {"true", "false"} : UpdateConfig(c, Unset, e)
    \/ \E l \in PollFailLists, tokenOk \in BOOLEAN, fetchOk \in BOOLEAN, e \in ExpiresIn :
          PollNewBookings(l, tokenOk, fetchOk, e)
    \/ \E d \in {1} : Tick(d)

SpecPollFail == Init /\ [][NextPollFail]_vars

\* C33: an enabled poll that fails (the token request, the fetch or the processing
\* of the fetched list) answers with the failure, keeps last_sync_at and leaves the
\* rides and the history as they were.
C33_FailedPollPersistsNothing ==
    [][ \A l \in PollFailLists, tokenOk \in BOOLEAN, fetchOk \in BOOLEAN, e \in ExpiresIn :
           (/\ PollNewBookings(l, tokenOk, fetchOk, e)
            /\ config.is_enabled
            /\ \/ ~ TokenIsFresh(config, now) /\ ~ tokenOk
               \/ ~ fetchOk
               \/ \E k \in 1..Len(l) : l[k].ref = NULL)
               => /\ resp'.val = 0 - 1
                  /\ config'.last_sync_at = config.last_sync_at
                  /\ rides' = rides
                  /\ history' = history ]_vars

----------------------------------------------------------------------------
(* Amendments and incidents *)

\* the references of an amendment or incident: one that a new-booking webhook
\* brings and one that none does
AuditReferences == {"B1", "B9"}

NextAudit ==
    \/ \E ref \in BookingReferences : BookingNew(ref, NULL)
    \/ \E ref \in AuditReferences, pickup \in {NoTime, 2 * HOUR} :
          Len(history) < MaxHistory /\ BookingUpdate(ref, "AMENDMENT", pickup, NULL)
    \/ \E ref \in AuditReferences :
          Len(history) < MaxHistory /\ BookingIncident(ref, NULL)
    \/ \E r \in 1..MaxRides :
          Len(notifications) < MaxNotifications /\ AssignRide(r, "d1", "adm")
    \/ \E r \in 1..MaxRides : Len(notifications) < MaxNotifications /\ AcceptRide(r, "d1")
    \/ \E r \in 1..MaxRides : StartRide(r, "d1")
    \/ \E r \in 1..MaxRides : Len(notifications) < MaxNotifications /\ CancelRide(r, "adm")
    \/ Len(notifications) < MaxNotifications /\ CheckCriticalRides

SpecAudit == Init /\ [][NextAudit]_vars

\* the step answers 204, changes no ride's status and, when one ride carries the
\* reference, appends one history row for it with old_status and new_status both
\* its status, and otherwise changes nothing
AuditOnly(ref) ==
    /\ resp'.code = 204
    /\ Len(rides') = Len(rides)
    /\ \A i \in RideIds : rides'[i].status = rides[i].status
    /\ UNCHANGED <<notifications, drivers>>
    /\ IF WithReference(rides, ref) = {}
       THEN UNCHANGED <<rides, history>>
       ELSE \E i \in RideIds :
               /\ WithReference(rides, ref) = {i}
               /\ Len(history') = Len(history) + 1
               /\ SubSeq(history', 1, Len(history)) = history
               /\ history'[Len(history')].ride_id = i
               /\ history'[Len(history')].old_status = rides[i].status
               /\ history'[Len(history')].new_status = rides[i].status

\* C34: an amendment and an incident never change a ride's status; for a known
\* reference each appends one history row whose old_status and new_status are the
\* ride's status, for an unknown reference each changes nothing; both answer 204.
C34_AuditRowOnly ==
    [][ \A ref \in AuditReferences :
          /\ \A pickup \in {NoTime, 2 * HOUR} :
                BookingUpdate(ref, "AMENDMENT", pickup, NULL) => AuditOnly(ref)
          /\ BookingIncident(ref, NULL) => AuditOnly(ref) ]_vars

\* C34 witness: an incident has been recorded on a ride in progress that had been
\* amended before
C34_Witness ==
    /\ resp.op = "booking_incident" /\ resp.code = 204 /\ resp.ride # 0
    /\ rides[resp.ride].status = "in_progress"
    /\ history[Len(history)].notes = "Booking.com incident"
    /\ history[Len(history)].old_status = "in_progress"
    /\ history[Len(history)].new_status = "in_progress"
    /\ \E k \in 1..Len(history) : history[k].notes = "Booking amended by Booking.com"

----------------------------------------------------------------------------
(* Outbound accept and reject *)

\* rides of the three origins (a Booking.com webhook, a supplier booking, an
\* admin), the integration switched on and off, and the two outbound calls
NextOutbound ==
    \/ \E c \in {Unset, "c1"}, e \in {"true", "false"} : UpdateConfig(c, Unset, e)
    \/ \E ref \in BookingReferences : BookingNew(ref, NULL)
    \/ SearchOffers(TRUE, 1, 500, 0, now + 25 * HOUR)
    \/ \E o \in OfferIds : BookTransfer(TRUE, o)
    \/ CreateRide("adm", NULL, "manual", now + 25 * HOUR, 10000, 520, 6000, NULL)
    \/ \E r \in 1..MaxRides, tokenOk \in BOOLEAN, callOk \in BOOLEAN :
          AcceptBooking(r, tokenOk, callOk, 60)
    \/ \E r \in 1..MaxRides, tokenOk \in BOOLEAN, callOk \in BOOLEAN :
          RejectBooking(r, tokenOk, callOk, 60)

SpecOutbound == Init /\ [][NextOutbound]_vars

\* the result of an outbound call for ride r as the claim has it
OutboundResult(r, tokenOk, callOk) ==
    /\ UNCHANGED <<rides, history, notifications>>
    /\ (\/ ~ config.is_enabled
        \/ rides[r].booking_reference = NULL
        \/ rides[r].booking_customer_ref = NULL)
          => /\ resp'.val = 1
             /\ resp'.calls = 0
             /\ resp'.text = NULL
             /\ UNCHANGED config
    /\ (/\ config.is_enabled
        /\ rides[r].booking_reference # NULL
        /\ rides[r].booking_customer_ref # NULL
        /\ \/ ~ TokenIsFresh(config, now) /\ ~ tokenOk
           \/ ~ callOk)
          => resp'.val = 0 - 1

\* C35: an outbound accept or reject answers success without a token request or a
\* remote call when the integration is disabled or the ride lacks its booking
\* reference or its customer reference; a failed token request or remote call
\* makes it answer false; neither changes a ride.
C35_OutboundShortCircuit ==
    [][ \A r \in 1..MaxRides, tokenOk \in BOOLEAN, callOk \in BOOLEAN :
          /\ AcceptBooking(r, tokenOk, callOk, 60) => OutboundResult(r, tokenOk, callOk)
          /\ RejectBooking(r, tokenOk, callOk, 60) => OutboundResult(r, tokenOk, callOk) ]_vars

----------------------------------------------------------------------------
(* What the sweep escalates *)

\* the rides a step turns into critical
Escalated == {i \in RideIds : rides[i].status # "critical" /\ rides'[i].status = "critical"}

----------------------------------------------------------------------------
(* The driver of a booked ride *)

\* C37: a ride in booked, in_progress or completed has a driver_id; a ride that
\* turns booked had its driver_id before the step, and no step clears a driver_id.
C37_BookedHasDriver ==
    /\ [](\A i \in RideIds :
              rides[i].status \in {"booked", "in_progress", "completed"}
                  => rides[i].driver_id \in DriverUsers)
    /\ [][ \A i \in RideIds :
              /\ (rides[i].status # "booked" /\ rides'[i].status = "booked")
                    => /\ rides[i].driver_id # NULL
                       /\ rides'[i].driver_id = rides[i].driver_id
              /\ rides[i].driver_id # NULL => rides'[i].driver_id # NULL ]_vars

\* C37 witness: an update has named another driver on a ride its first driver had
\* accepted
C37_Witness ==
    /\ resp.op = "update" /\ resp.code = 200
    /\ rides[resp.ride].status = "booked"
    /\ rides[resp.ride].driver_id = "d2"
    /\ \E k \in 1..Len(history) :
          /\ history[k].ride_id = resp.ride
          /\ history[k].new_status = "booked"
          /\ history[k].changed_by = "d1"

----------------------------------------------------------------------------
(* Assigning a ride again *)

\* rides assigned to one driver and then to another, the two drivers' requests, an
\* admin's update and the sweep
NextReassign ==
    \/ Len(rides) < 1 /\ CreateRide("adm", NULL, "manual", now + 2 * HOUR, 10000, 520, 6000, NULL)
    \/ \E r \in 1..MaxRides, d \in DriverUsers :
          Len(notifications) < MaxNotifications /\ AssignRide(r, d, "adm")
    \/ \E r \in 1..MaxRides, u \in DriverUsers :
          Len(notifications) <= MaxNotifications /\ AcceptRide(r, u)
    \/ \E r \in 1..MaxRides, u \in DriverUsers : StartRide(r, u)
    \/ \E r \in 1..MaxRides, u \in DriverUsers : CompleteRide(r, u)
    \/ \E r \in 1..MaxRides, patch \in Patches : UpdateRide("adm", r, patch)
    \/ Len(notifications) < MaxNotifications /\ CheckCriticalRides

SpecReassign == Init /\ [][NextReassign]_vars

\* C38: an assign of a ride in to_assign or critical succeeds whether or not the
\* ride has a driver, sets driver_id to the driver named and keeps the status.  An
\* accept, start or complete by another driver than the ride's driver_id answers
\* 403 and changes nothing; an accept by the ride's driver of a ride in to_assign
\* or critical books it, and that driver's start and complete succeed.  Once a
\* ride is booked only an update changes its driver_id.
C38_LastAssignDecides ==
    [][ \A r \in RideIds :
          /\ \A d \in DriverUsers :
                (AssignRide(r, d, "adm") /\ rides[r].status \in {"to_assign", "critical"})
                   => /\ resp'.code = 200
                      /\ rides'[r].driver_id = d
                      /\ rides'[r].status = rides[r].status
          /\ \A u \in DriverUsers :
                /\ (/\ (AcceptRide(r, u) \/ StartRide(r, u) \/ CompleteRide(r, u))
                     /\ rides[r].driver_id # u)
                      => /\ resp'.code = 403
                         /\ UNCHANGED <<rides, history, notifications, drivers>>
                /\ (/\ AcceptRide(r, u)
                     /\ rides[r].driver_id = u
                     /\ rides[r].status \in {"to_assign", "critical"})
                      => /\ resp'.code = 200
                         /\ rides'[r].status = "booked"
                         /\ rides'[r].driver_id = u
                /\ (StartRide(r, u) /\ rides[r].driver_id = u /\ rides[r].status = "booked")
                      => /\ resp'.code = 200
                         /\ rides'[r].status = "in_progress"
                /\ (/\ CompleteRide(r, u)
                     /\ rides[r].driver_id = u
                     /\ rides[r].status = "in_progress")
                      => /\ resp'.code = 200
                         /\ rides'[r].status = "completed"
          /\ (/\ rides[r].status \in {"booked", "in_progress", "completed"}
               /\ rides'[r].driver_id # rides[r].driver_id)
                 => resp'.op = "update" ]_vars

\* C38 witness: a ride assigned to d1 and then to d2 has been accepted, started and
\* completed by d2
C38_Witness ==
    /\ resp.op = "complete" /\ resp.code = 200
    /\ rides[resp.ride].status = "completed"
    /\ rides[resp.ride].driver_id = "d2"
    /\ Len(notifications) >= 2
    /\ notifications[1] = _create_notification("d1", "ride_assigned", resp.ride)
    /\ notifications[2] = _create_notification("d2", "ride_assigned", resp.ride)
    /\ \A k \in 1..Len(history) :
          history[k].new_status \in {"booked", "in_progress", "completed"}
              => history[k].changed_by = "d2"

----------------------------------------------------------------------------
(* Supplier requests and rides of other origins *)

\* a ride a Booking.com webhook has brought, a ride an admin created with an
\* external id, the supplier API's bookings, and the supplier's status and cancel
NextForeign ==
    \/ \E ref \in BookingReferences : BookingNew(ref, NULL)
    \/ CreateRide("adm", "B1", "manual", now + 25 * HOUR, 10000, 520, 6000, NULL)
    \/ SearchOffers(TRUE, 1, 500, 0, now + 25 * HOUR)
    \/ \E o \in OfferIds : BookTransfer(TRUE, o)
    \/ \E authOk \in BOOLEAN, o \in OrderIds : GetOrderStatus(authOk, o)
    \/ \E authOk \in BOOLEAN, o \in OrderIds : CancelOrder(authOk, o)

SpecForeign == Init /\ [][NextForeign]_vars

\* C39: a supplier status or cancel request neither changes nor reports a ride
\* whose source_platform is not "etg".
C39_OnlyEtgOrders ==
    [][ resp'.op \in {"etg_status", "etg_cancel"}
          => \A i \in RideIds :
                rides[i].source_platform # "etg"
                    => /\ rides'[i] = rides[i]
                       /\ resp'.ride # i ]_vars

----------------------------------------------------------------------------
(* The cached token and a change of credentials *)

\* the tokens the remote side can have issued for credentials c
TokensFor(c) == {"token:" \o c \o "@" \o ToString(t) : t \in 0..MaxNow}

\* C40: an update that names credentials leaves no token cached; a token that is
\* cached was issued for the credentials on file, and so is the token a connection
\* test reports; the next call that needs a token after such an update sends one
\* token request and, when it succeeds, caches a token issued for the new
\* credentials at that time.
C40_NewCredentialsNewToken ==
    /\ [](config.access_token # NULL => config.access_token \in TokensFor(config.client_id))
    /\ []((resp.op = "test" /\ resp.val = 1) => resp.text \in TokensFor(config.client_id))
    /\ [][ /\ \A c \in {"c1", "c2"}, e \in {Unset, "true"} :
                 UpdateConfig(c, Unset, e)
                    => /\ config'.client_id = c
                       /\ config'.access_token = NULL
                       /\ config'.token_expires_at = NoTime
           /\ \A tokenOk \in BOOLEAN, e \in ExpiresIn :
                 (TokenCall(tokenOk, e) /\ resp.op = "update_config"
                                        /\ config.access_token = NULL)
                    => /\ resp'.calls = 1
                       /\ tokenOk => /\ config'.access_token =
                                            "token:" \o config.client_id \o "@" \o ToString(now)
                                     /\ config'.token_expires_at = now + e
                       /\ ~ tokenOk => config'.access_token = NULL ]_vars

\* C40 witness: after a poll had succeeded under credentials c1, the credentials
\* were changed to c2 within the same minute and a connection test has been issued
\* a token for c2
C40_Witness ==
    /\ resp.op = "test" /\ resp.val = 1 /\ resp.calls = 1
    /\ config.client_id = "c2"
    /\ config.last_sync_at = now
    /\ resp.text = "token:c2@" \o ToString(now)
    /\ config.access_token = resp.text

====
